---- MODULE Spec2Model ----
(***************************************************************************)
(* A model of the interval scheduler of bucket (src/bucket/rss_scheduler.py)*)
(* and of the ingest entry points it calls (src/bucket/rss_manager.py).    *)
(*                                                                         *)
(* Time is counted in whole minutes.  One asyncio task is one process of   *)
(* the model; one action is the code a task runs between two awaits, so    *)
(* the interleavings of the model are the interleavings of the event loop. *)
(***************************************************************************)
EXTENDS Integers, Sequences, FiniteSets, TLC

\* ------------------------------------------------------------- bounds
\* The clock stops at MaxTime; intervals are 1..MaxInterval minutes; the callers
\* of the scheduler's methods make at most MaxCalls calls in one behaviour.
MaxTime == 2
MaxInterval == 2
MaxCalls == 4
\* The feed content has at most MaxEntries entries.
MaxEntries == 2
\* The store has at most MaxFeeds active feeds.
MaxFeeds == 3
\* The store a briefing is made of has at most MaxRows articles.
MaxRows == 3

\* ---------------------------------------------------------- constants
\* asyncio.sleep(60): the tick of the loop, in minutes.
TickMinutes == 1
\* Optional[datetime] = None (last_run, next_run before they are set).
NoTime == -1
\* feed_id None (and 0, equally falsy at "if config.feed_id:"): all feeds.
AllFeeds == 0
\* self.task: the one task that runs _scheduler_loop.
LoopTask == 0

\* The schedules DiscordRSSScheduler registers: add_global_schedule's
\* "global_rss_update" (feed_id None) and add_feed_schedule's "feed_<feed_id>".
Names == {"global_rss_update", "feed_1"}
FeedIds == {1}
\* "active": refresh_feed ingests the feed. "inactive": the row is missing or
\* its is_active is false; refresh_feed answers {"error": ...} in both cases.
FeedStates == {"active", "inactive"}
FeedOf(n) == IF n = "feed_1" THEN 1 ELSE AllFeeds
ManualCallers == {1}
NoName == "-"
\* A deleted slot of the dict's entry array (CPython leaves a dummy entry).
Tomb == "#"
Intervals == 1..MaxInterval
Times == 0..MaxTime
TaskIds == {LoopTask} \cup ManualCallers
UpdateKeys == {"enabled", "interval_minutes"}
\* callback_url None, and the webhook_url a schedule may be given.
NoUrl == "none"
WebhookUrls == {NoUrl, "webhook"}
\* Names under which register_callback is called; DiscordRSSScheduler
\* registers "discord_notify" when it is built with a bot, which is the
\* scheduler Init describes.
CallbackNames == {"discord_notify", "on_update"}
\* What a webhook POST ends in: a 2xx response, a response with status >= 400,
\* an exception (connection failure).
PostOutcomes == {"2xx", "non2xx", "failed"}

\* ------------------------------------------- articles and the store
\* "< 86400": published dates within 24 hours.
DaySeconds == 86400
\* "threshold: float = 0.8", as the fraction 4/5.
ThresholdNum == 4
ThresholdDen == 5
\* "content[:1000]": the sample the content hash is taken of, in chunks of
\* 1000 characters.
HashSample == 1
\* published_date None.
NoDate == NoTime
Urls == {"u1", "u2"}
\* A string is the sequence of its characters: the titles "ab" and "c".
Titles == {<<"a", "b">>, <<"c">>}
\* Published dates, in hours.
Dates == {NoDate, 0, 24}
\* Contents: sequences of chunks of 1000 characters; <<>> is no content.
Contents == {<<>>, <<"h">>}
\* feed.name of the feed that is ingested, and the source of an article that
\* another feed stored.
FeedName == "feed"
OtherSource == "other"
\* The articles RSSFetcher.fetch_feed may return (source is None).
Candidates ==
    [url : Urls, title : Titles, published_date : Dates, content : Contents]
FeedContents == UNION {[1..k -> Candidates] : k \in 0..MaxEntries}
\* What the store may hold when the first ingest starts: nothing, or one
\* article of another feed.
ForeignArticle ==
    [url |-> "u2", title |-> <<"a", "b">>, published_date |-> 0,
     content |-> <<"h">>, source |-> OtherSource]
\* The two consecutive fetch_feed_articles calls on the feed.
Runs == {"first", "second"}
NoRun == "never"
\* Which read of _is_duplicate_article raises: get_article_by_url, the
\* get_articles_by_source of the title check, that of the content check.
ReadFaults == {"none", "url", "title", "content"}

\* str.lower() on the letters the titles are written with.
UpperToLower == ("A" :> "a") @@ ("B" :> "b") @@ ("M" :> "m")
Lower(str) ==
    [i \in 1..Len(str) |->
        IF str[i] \in DOMAIN UpperToLower THEN UpperToLower[str[i]] ELSE str[i]]

\* The length of the word a string that starts with no blank starts with.
WordLen(str) ==
    IF \E i \in 1..Len(str) : str[i] = " "
    THEN (CHOOSE i \in 1..Len(str) :
              str[i] = " " /\ \A j \in 1..(i - 1) : str[j] # " ") - 1
    ELSE Len(str)

\* str.split(): the words between runs of blanks.
RECURSIVE Split(_)
Split(str) ==
    IF str = <<>> THEN <<>>
    ELSE IF Head(str) = " " THEN Split(Tail(str))
    ELSE LET n == WordLen(str)
         IN  <<SubSeq(str, 1, n)>> \o Split(SubSeq(str, n + 1, Len(str)))

\* ' '.join(words).
RECURSIVE Join(_)
Join(words) ==
    IF words = <<>> THEN <<>>
    ELSE IF Len(words) = 1 THEN words[1]
    ELSE words[1] \o <<" ">> \o Join(Tail(words))

\* "' '.join(title.lower().split())".
Normalize(title) == Join(Split(Lower(title)))

\* "norm1 in norm2": a is a substring of b.
Contains(a, b) ==
    \E i \in 0..(Len(b) - Len(a)) : SubSeq(b, i + 1, i + Len(a)) = a

\* set(norm.split()).
WordsOf(norm) == LET w == Split(norm) IN {w[i] : i \in 1..Len(w)}

\* _titles_similar with "similarity > threshold".
TitlesSimilarAbove(title1, title2) ==
    IF title1 = <<>> \/ title2 = <<>> THEN FALSE
    ELSE LET norm1 == Normalize(title1)
             norm2 == Normalize(title2)
             words1 == WordsOf(norm1)
             words2 == WordsOf(norm2)
         IN  IF norm1 = norm2 THEN TRUE
             ELSE IF Contains(norm1, norm2) \/ Contains(norm2, norm1) THEN TRUE
             ELSE IF words1 = {} \/ words2 = {} THEN FALSE
             ELSE ThresholdDen * Cardinality(words1 \cap words2)
                      > ThresholdNum * Cardinality(words1 \cup words2)

\* _titles_similar with a threshold of 0.6.
TitlesSimilarLoose(title1, title2) ==
    IF title1 = <<>> \/ title2 = <<>> THEN FALSE
    ELSE LET norm1 == Normalize(title1)
             norm2 == Normalize(title2)
             words1 == WordsOf(norm1)
             words2 == WordsOf(norm2)
         IN  IF norm1 = norm2 THEN TRUE
             ELSE IF Contains(norm1, norm2) \/ Contains(norm2, norm1) THEN TRUE
             ELSE IF words1 = {} \/ words2 = {} THEN FALSE
             ELSE 5 * Cardinality(words1 \cap words2)
                      >= 3 * Cardinality(words1 \cup words2)

\* RSSManager._titles_similar: equal after normalization, one a substring of
\* the other, or the Jaccard similarity of the word sets >= threshold.
TitlesSimilar(title1, title2) ==
    IF title1 = <<>> \/ title2 = <<>> THEN FALSE
    ELSE LET norm1 == Normalize(title1)
             norm2 == Normalize(title2)
             words1 == WordsOf(norm1)
             words2 == WordsOf(norm2)
         IN  IF norm1 = norm2 THEN TRUE
             ELSE IF Contains(norm1, norm2) \/ Contains(norm2, norm1) THEN TRUE
             ELSE IF words1 = {} \/ words2 = {} THEN FALSE
             ELSE ThresholdDen * Cardinality(words1 \cap words2)
                      >= ThresholdNum * Cardinality(words1 \cup words2)

\* _get_content_hash over the whole content.
NoHash == <<>>
GetContentHashWhole(content) == IF content = <<>> THEN NoHash ELSE content

\* RSSManager._get_content_hash: a digest of the first 1000 characters; equal
\* samples have equal digests.
GetContentHash(content) ==
    IF content = <<>> THEN NoHash
    ELSE SubSeq(content, 1, IF Len(content) < HashSample THEN Len(content) ELSE HashSample)

AbsDiff(a, b) == IF a < b THEN b - a ELSE a - b

\* The title check of _is_duplicate_article against the stored articles of
\* the feed.
TitleMatch(article, recent) ==
    \E e \in recent :
        /\ e.title # <<>>
        /\ TitlesSimilar(article.title, e.title)
        /\ article.published_date # NoDate
        /\ e.published_date # NoDate
        /\ AbsDiff(article.published_date, e.published_date) * 3600 < DaySeconds

\* The content check of _is_duplicate_article.
HashMatch(article, recent) ==
    /\ GetContentHash(article.content) # NoHash
    /\ \E e \in recent :
          e.content # <<>> /\ GetContentHash(e.content) = GetContentHash(article.content)

\* Database.get_articles_by_source.
BySource(stored, source) == {e \in stored : e.source = source}

\* The read of _is_duplicate_article that `fault` names is made and raises.
ReadFails(article, stored, fault) ==
    LET url_hit == \E e \in stored : e.url = article.url
        recent == BySource(stored, FeedName)
        title_read == ~url_hit /\ article.title # <<>>
        title_hit == title_read /\ fault # "title" /\ TitleMatch(article, recent)
    IN  \/ fault = "url"
        \/ fault = "title" /\ title_read
        \/ fault = "content" /\ ~url_hit /\ ~title_hit /\ article.content # <<>>
                              /\ GetContentHash(article.content) # NoHash

\* _is_duplicate_article without its first step, the exact URL match.
IsDuplicateSkipsUrl(article, stored, fault) ==
    IF ReadFails(article, stored, fault) THEN TRUE
    ELSE LET recent == BySource(stored, FeedName)
         IN  \/ TitleMatch(article, recent)
             \/ HashMatch(article, recent)

\* _is_duplicate_article with "return False" in its except clause.
IsDuplicateFailOpen(article, stored, fault) ==
    IF ReadFails(article, stored, fault) THEN FALSE
    ELSE LET recent == BySource(stored, FeedName)
         IN  \/ \E e \in stored : e.url = article.url
             \/ TitleMatch(article, recent)
             \/ HashMatch(article, recent)

\* RSSManager._is_duplicate_article: the URL, then the title and the dates,
\* then the content hash; an exception answers duplicate.
IsDuplicateArticle(article, stored, fault) ==
    IF ReadFails(article, stored, fault) THEN TRUE
    ELSE LET recent == BySource(stored, FeedName)
         IN  \/ \E e \in stored : e.url = article.url
             \/ TitleMatch(article, recent)
             \/ HashMatch(article, recent)

\* The row Database.save_article inserts for a candidate of the feed
\* ("article.source = feed.name").
Persisted(article) ==
    [url |-> article.url, title |-> article.title,
     published_date |-> article.published_date, content |-> article.content,
     source |-> FeedName]

\* The store with no article and a feed never fetched.
EmptyDb == [articles |-> {}, last_fetched |-> NoRun]
\* No fetch_feed_articles call made yet.
NoIngest ==
    [content |-> <<>>, pc |-> "idle", run |-> NoRun, pos |-> 0, saved |-> <<>>,
     ret |-> <<>>, first_fetched |-> FALSE, first_errors |-> FALSE,
     save_failed |-> FALSE]

\* ------------------------------------- inputs of the duplicate check
\* The title made of one-letter words.
Spaced(letters) == Join([i \in 1..Len(letters) |-> <<letters[i]>>])
\* "B: M h r g" and "B M h r g" (the same words, one with a colon), titles
\* that share 4 of 5 and 3 of 5 words, a title the others contain, the empty
\* and the blank title, and "A  b c".
ProbeTitles ==
    {<<"B", ":", " ">> \o Spaced(<<"M", "h", "r", "g">>),
     Spaced(<<"B", "M", "h", "r", "g">>),
     Spaced(<<"a", "b", "c", "d">>),
     Spaced(<<"b", "a", "c", "d", "e">>),
     Spaced(<<"a", "b", "c", "x">>),
     Spaced(<<"b", "a", "c", "y">>),
     Spaced(<<"a", "b", "c">>),
     Spaced(<<"a", "b", "c", "d", "e">>),
     <<>>,
     <<" ">>,
     <<"A", " ", " ", "b", " ", "c">>}
\* Published dates in hours: none, two dates an hour apart, one 30 days on.
ProbeDates == {NoDate, 0, 1, 720}
\* Bodies in chunks of 1000 characters: none, one chunk, the same chunk with
\* more text after it, another chunk.
ProbeBodies == {<<>>, <<"h">>, <<"h", "t">>, <<"g">>}
ProbeCandidates ==
    [url : {"u1"}, title : ProbeTitles, published_date : ProbeDates,
     content : ProbeBodies]
ProbeStored ==
    [url : {"u2"}, title : ProbeTitles, published_date : ProbeDates,
     content : ProbeBodies, source : {FeedName, OtherSource}]
\* The names feeds are given; the column is not unique.
FeedNames == {"alpha", "beta", "gamma"}
\* The position of a name in ascending order.
NameOrder == ("alpha" :> 1) @@ ("beta" :> 2) @@ ("gamma" :> 3)
\* What get_feeds(active_only=True) may return: the active feeds by name
\* ("order_by(FeedTable.name.asc())").
ActiveFeeds ==
    {f \in UNION {[1..k -> FeedNames] : k \in 0..MaxFeeds} :
        \A i \in 1..(Len(f) - 1) : NameOrder[f[i]] <= NameOrder[f[i + 1]]}
\* fetch_all_feeds not called.
NoFetchAll ==
    [pc |-> "idle", feeds |-> <<>>, status |-> <<>>, returned |-> <<>>,
     failed |-> {}, results |-> <<>>]
\* No duplicate check asked for.
NoProbe ==
    [pc |-> "none", article |-> <<>>, stored |-> <<>>, fault |-> "none",
     similar |-> FALSE, duplicate |-> FALSE]

\* ------------------------------------------------- the briefing
\* ArticlePriority, and the priority_order of generate_rss_briefing
\* ("priority_order.get(a.priority.value, 4)": every value has a rank).
Priorities == {"urgent", "high", "medium", "low"}
PriorityOrder ==
    ("urgent" :> 0) @@ ("high" :> 1) @@ ("medium" :> 2) @@ ("low" :> 3)
\* article.source: None or empty, or the name of a feed.
NoSource == ""
Sources == {NoSource, FeedName, OtherSource}
\* RSSBriefingConfig: days_back (7 by default), max_articles_per_feed,
\* max_total_articles, group_by_feed, sort_by_priority.
DaysBack == {1, 7}
PerFeedCaps == {1, 2}
TotalCaps == {2, 3}
BriefingConfigs ==
    [days_back : DaysBack, max_articles_per_feed : PerFeedCaps,
     max_total_articles : TotalCaps, group_by_feed : BOOLEAN,
     sort_by_priority : BOOLEAN]
\* The key of the list made when group_by_feed is off.
AllFeedsKey == "All Feeds"
\* The columns of an article row the briefing reads.  The article with id i
\* was created on day i.
BriefingRows(n) ==
    {{[id |-> i, source |-> f[i].source, priority |-> f[i].priority,
       created_at |-> i] : i \in 1..n} :
        f \in [1..n -> [source : Sources, priority : Priorities]]}

\* ------------------------------ ingests side by side, and the cleanup
\* The fetch_feed_articles calls that run as tasks of one event loop: that
\* of a tick's execution, that of a run_schedule_now or refresh_feed call,
\* and one more of either kind.
Racers == {"tick", "manual", "third"}
\* The order in which the fetcher made their Article objects: created_at is
\* "Field(default_factory=datetime.utcnow)" and is stored as it is.
FetchedAt == ("tick" :> 1) @@ ("manual" :> 2) @@ ("third" :> 3)
\* The candidate each of them has at hand: dated, with a content.
RaceUrls == {"u1", "u2", "u3"}
RaceBodies == {<<"h">>, <<"g">>}
RaceCandidates ==
    [url : RaceUrls, title : Titles, published_date : {0}, content : RaceBodies]
\* The row Database.save_article inserts for the candidate of racer k of the
\* feed `source`: the id is the next one, created_at is the Article's.
RaceRow(article, source, k, rows) ==
    [url |-> article.url, title |-> article.title,
     published_date |-> article.published_date, content |-> article.content,
     source |-> source, id |-> Cardinality(rows) + 1, created_at |-> FetchedAt[k]]
\* No fetch_feed_articles call runs beside another.
NoRace == <<>>
\* cleanup_duplicates not called.
NoCleanup ==
    [pc |-> "idle", work |-> <<>>, pos |-> 0, seen_urls |-> {},
     seen_titles |-> <<>>, seen_content_hashes |-> {}, flagged |-> {},
     report |-> <<>>,
     duplicates_found |-> 0, duplicates_removed |-> 0]
\* generate_rss_briefing not called.
NoBriefing == [pc |-> "idle", config |-> <<>>, recent |-> <<>>, lists |-> <<>>]

VARIABLES
    now,          \* datetime.utcnow(), in minutes
    schedules,    \* self.schedules: name -> ScheduleConfig
    entries,      \* insertion order of self.schedules (the dict's entry array)
    running,      \* self.running
    loop,         \* self.task: the task of _scheduler_loop and its locals
    exec,         \* task -> the _execute_schedule call it is inside of
    ret,          \* caller -> what its last run_schedule_now returned
    feed_state,   \* feed id -> what refresh_feed finds in the store
    calls,        \* how many calls the scheduler's callers have made
    stop_pc,      \* the stop() call in progress: "idle" or "waiting" (await self.task)
    orphans,      \* loop tasks still alive that self.task no longer refers to
    callbacks,    \* insertion order of self.callbacks: the registered names
    db,           \* the store: the articles table and the feed's last_fetched
    ingest,       \* the fetch_feed_articles calls on the feed, one after the other
    probe,        \* a candidate and a stored article the duplicate check is given
    fetch_all,    \* the fetch_all_feeds call: its feeds, coroutines and results
    race,         \* ingest -> the fetch_feed_articles call running beside the others
    cleanup,      \* the cleanup_duplicates call: its locals and its report
    briefing      \* the generate_rss_briefing call: its config and its lists

vars == <<now, schedules, entries, running, loop, exec, ret, feed_state, calls,
          stop_pc, orphans, callbacks, db, ingest, probe, fetch_all, race, cleanup, briefing>>

\* ------------------------------------------------------------ helpers
\* pc: where in _execute_schedule the task is; attached: the config object it
\* was given is the one registered; cb_pos, cb_len: the position of the
\* iterator over self.callbacks and the size of the dict when it was made;
\* hook: the config _execute_callbacks looked up has a callback_url.
IdleExec == [pc |-> "idle", name |-> NoName, attached |-> TRUE,
             cb_pos |-> 0, cb_len |-> 0, hook |-> FALSE]

\* kind: what the caller got ("error": {"error": ...}, "message": {"message":
\* "... executed successfully", ...}); path: how the _execute_schedule call
\* behind it ended ("ok", "error": refresh_feed answered an error and the call
\* returned early, "exception": the except clause logged an exception).
NoRet == [kind |-> "none", name |-> NoName, path |-> "none"]

NoLoop == [pc |-> "none", current_time |-> 0, it_pos |-> 0, it_len |-> 0,
           wake_at |-> 0]

Present(n) == n \in DOMAIN schedules

Compact(seq) == SelectSeq(seq, LAMBDA x : x # Tomb)

\* The scan holds a live iterator over self.schedules while the loop awaits an
\* execution; only then does the layout of the entry array matter.
Iterating == loop.pc = "exec"

\* _calculate_next_run without its "if config.last_run" branch.
CalcNextRunNowOnly(config, t) == t + config.interval_minutes

\* RSSScheduler._calculate_next_run at time t.
CalculateNextRun(config, t) ==
    IF config.last_run # NoTime
    THEN config.last_run + config.interval_minutes
    ELSE t + config.interval_minutes

\* Executions in flight on name n keep the config object they were given; once
\* the name is re-registered or removed that object is no longer in
\* self.schedules.
Detach(ex, n) ==
    [t \in TaskIds |->
        IF ex[t].pc # "idle" /\ ex[t].name = n
        THEN [ex[t] EXCEPT !.attached = FALSE]
        ELSE ex[t]]

\* dict insertion of a new key: appended to the entry array.  (CPython rebuilds
\* the array without its dummies when an entry is appended to a full one; a
\* new dict holds 5 entries, and MaxCalls keeps the array of an iteration
\* shorter than its next size.)
Inserted(seq, n) == IF Iterating THEN Append(seq, n) ELSE Append(Compact(seq), n)

\* dict deletion: the slot becomes a dummy.
Deleted(seq, n) ==
    LET s == [i \in 1..Len(seq) |-> IF seq[i] = n THEN Tomb ELSE seq[i]]
    IN  IF Iterating THEN s ELSE Compact(s)

TypeOK ==
    /\ now \in Times
    /\ DOMAIN schedules \subseteq Names
    /\ running \in BOOLEAN
    /\ \A n \in DOMAIN schedules :
          /\ schedules[n].interval_minutes \in Intervals
          /\ schedules[n].feed_id = FeedOf(n)
          /\ schedules[n].enabled \in BOOLEAN
          /\ schedules[n].next_run \in 0..(MaxTime + MaxInterval)
          /\ schedules[n].last_run \in {NoTime} \cup Times
          /\ schedules[n].callback_url \in WebhookUrls
    /\ callbacks \in Seq(CallbackNames) /\ Len(callbacks) <= Cardinality(CallbackNames)
    /\ \A t \in TaskIds :
          /\ exec[t].cb_pos \in 0..Len(callbacks)
          /\ exec[t].cb_len \in 0..Len(callbacks)
          /\ exec[t].hook \in BOOLEAN
    /\ {entries[i] : i \in 1..Len(entries)} \ {Tomb} = DOMAIN schedules
    /\ Len(entries) <= MaxCalls
    /\ calls \in 0..MaxCalls
    /\ loop.pc \in {"none", "ready", "exec", "sleep", "cancelling", "cancelled"}
    /\ stop_pc \in {"idle", "waiting"}
    /\ orphans \in 0..MaxCalls
    /\ \A t \in TaskIds : exec[t].pc \in {"idle", "ingest", "callbacks", "webhook"}
    /\ loop.pc = "exec" => exec[LoopTask].pc # "idle"
    /\ exec[LoopTask].pc # "idle" => loop.pc \in {"exec", "cancelling"}
    /\ (race = NoRace /\ briefing.pc = "idle") =>
          db.articles \subseteq
              {Persisted(a) : a \in Candidates} \cup {ForeignArticle}
    /\ \A e \in db.articles : e.source \in Sources
    /\ \A k \in DOMAIN race :
          /\ k \in Racers
          /\ race[k].article \in RaceCandidates
          /\ race[k].feed \in {FeedName, OtherSource}
          /\ race[k].pc \in {"check", "save", "done"}
          /\ race[k].outcome \in {"none", "new", "duplicate", "saved", "rejected"}
    /\ cleanup.pc \in {"idle", "scan", "returned"}
    /\ cleanup.pos \in 0..(Len(cleanup.work) + 1)
    /\ cleanup.pc = "scan" => cleanup.pos \in 1..Len(cleanup.work)
    /\ cleanup.flagged \subseteq {cleanup.work[i] : i \in 1..Len(cleanup.work)}
    /\ cleanup.duplicates_found \in 0..Cardinality(Racers)
    /\ cleanup.duplicates_removed \in 0..Cardinality(Racers)
    /\ briefing.pc \in {"idle", "ready", "read", "raised", "done"}
    /\ briefing.pc # "idle" => briefing.config \in BriefingConfigs
    /\ Len(briefing.recent) <= MaxRows
    /\ db.last_fetched \in Runs \cup {NoRun}
    /\ ingest.content \in FeedContents
    /\ ingest.pc \in {"idle", "check", "save", "update"}
    /\ ingest.run \in Runs \cup {NoRun}
    /\ ingest.pos \in 0..(Len(ingest.content) + 1)
    /\ ingest.pc \in {"check", "save"} => ingest.pos \in 1..Len(ingest.content)
    /\ ingest.first_fetched \in BOOLEAN
    /\ probe.pc \in {"none", "ready", "compared", "checked"}
    /\ probe.pc # "none" =>
          probe.article \in ProbeCandidates /\ probe.stored \in ProbeStored
    /\ probe.fault \in ReadFaults
    /\ probe.similar \in BOOLEAN /\ probe.duplicate \in BOOLEAN
    /\ fetch_all.pc \in {"idle", "get_feeds", "awaiting", "returned"}
    /\ fetch_all.feeds \in ActiveFeeds
    /\ Len(fetch_all.status) \in {0, Len(fetch_all.feeds)}
    /\ \A i \in 1..Len(fetch_all.status) :
          fetch_all.status[i] \in {"created", "fetching", "storing", "done"}
    /\ fetch_all.failed \subseteq 1..Len(fetch_all.feeds)
    /\ DOMAIN fetch_all.results \subseteq FeedNames
    /\ ingest.first_errors \in BOOLEAN
    /\ ingest.save_failed \in BOOLEAN

Init ==
    /\ now = 0
    /\ schedules = <<>>
    /\ entries = <<>>
    /\ running = FALSE
    /\ loop = NoLoop
    /\ exec = [t \in TaskIds |-> IdleExec]
    /\ ret = [t \in ManualCallers |-> NoRet]
    /\ feed_state \in [FeedIds -> FeedStates]
    /\ calls = 0
    /\ stop_pc = "idle"
    /\ orphans = 0
    /\ callbacks = <<"discord_notify">>
    /\ db = EmptyDb
    /\ ingest = NoIngest
    /\ probe = NoProbe
    /\ fetch_all = NoFetchAll
    /\ race = NoRace
    /\ cleanup = NoCleanup
    /\ briefing = NoBriefing

\* ------------------------------------------------------- the clock
Clock ==
    /\ now < MaxTime
    /\ now' = now + 1
    /\ UNCHANGED <<schedules, entries, running, loop, exec, ret, feed_state, calls, stop_pc, orphans, callbacks, db, ingest, probe, fetch_all, race, cleanup, briefing>>

\* ------------------------------------------- schedule registry (sync)
\* One more call by a caller of the scheduler.
Called == calls < MaxCalls /\ calls' = calls + 1

\* DiscordRSSScheduler.add_global_schedule / add_feed_schedule: a fresh
\* ScheduleConfig (enabled, never run) given to RSSScheduler.add_schedule.
AddSchedule(n, iv, url) ==
    LET c0 == [feed_id |-> FeedOf(n), interval_minutes |-> iv, enabled |-> TRUE,
               last_run |-> NoTime, next_run |-> NoTime, callback_url |-> url]
        c1 == [c0 EXCEPT !.next_run = CalculateNextRun(c0, now)]
    IN  /\ Called
        /\ schedules' = (n :> c1) @@ schedules
        /\ entries' = IF Present(n) THEN entries ELSE Inserted(entries, n)
        /\ exec' = IF Present(n) THEN Detach(exec, n) ELSE exec
        /\ UNCHANGED <<now, running, loop, ret, feed_state, stop_pc, orphans, callbacks, db, ingest, probe, fetch_all, race, cleanup, briefing>>

\* RSSScheduler.remove_schedule(name), the case that returns True.
RemoveSchedule(n) ==
    /\ Called
    /\ Present(n)
    /\ schedules' = [m \in DOMAIN schedules \ {n} |-> schedules[m]]
    /\ entries' = Deleted(entries, n)
    /\ exec' = Detach(exec, n)
    /\ UNCHANGED <<now, running, loop, ret, feed_state, stop_pc, orphans, callbacks, db, ingest, probe, fetch_all, race, cleanup, briefing>>

\* RSSScheduler.update_schedule(name, **kwargs), the case that returns True.
\* keys are the keyword arguments given, en and iv their values.
UpdateSchedule(n, keys, en, iv) ==
    /\ Called
    /\ Present(n)
    /\ LET c0 == schedules[n]
           c1 == [c0 EXCEPT !.enabled = IF "enabled" \in keys THEN en ELSE @,
                            !.interval_minutes =
                                IF "interval_minutes" \in keys THEN iv ELSE @]
           c2 == [c1 EXCEPT !.next_run = CalculateNextRun(c1, now)]
       IN  schedules' = [schedules EXCEPT ![n] = c2]
    /\ UNCHANGED <<now, entries, running, loop, exec, ret, feed_state, stop_pc, orphans, callbacks, db, ingest, probe, fetch_all, race, cleanup, briefing>>

\* The store's feed rows change under the scheduler (toggle_feed, remove_feed,
\* add_feed of rss_manager.py).
SetFeed(f, s) ==
    /\ Called
    /\ feed_state[f] # s
    /\ feed_state' = [feed_state EXCEPT ![f] = s]
    /\ UNCHANGED <<now, schedules, entries, running, loop, exec, ret, stop_pc, orphans, callbacks, db, ingest, probe, fetch_all, race, cleanup, briefing>>

\* ------------------------------------------------- the scheduler loop
\* The test of _scheduler_loop without "if not config.enabled: continue".
FiresWhenDisabled(config, current_time) ==
    config.next_run # NoTime /\ current_time >= config.next_run

\* The test of _scheduler_loop on one config: "if not config.enabled: continue"
\* and "if config.next_run and current_time >= config.next_run".
Fires(config, current_time) ==
    /\ config.enabled
    /\ config.next_run # NoTime
    /\ current_time >= config.next_run

\* The scan with "break" for "continue": it gives up at the first entry that
\* does not fire.
NextDueStopsAtFirst(pos, current_time, sch, ent) ==
    LET live == {i \in (pos + 1)..Len(ent) : ent[i] # Tomb}
    IN  IF live = {} THEN 0
        ELSE LET i == CHOOSE k \in live : \A j \in live : k <= j
             IN  IF Fires(sch[ent[i]], current_time) THEN i ELSE 0

\* The next entry after position pos the loop executes, or 0: the dict iterator
\* skips dummies, the loop body skips what does not fire.
NextDue(pos, current_time, sch, ent) ==
    LET cand == {i \in (pos + 1)..Len(ent) :
                    ent[i] # Tomb /\ Fires(sch[ent[i]], current_time)}
    IN  IF cand = {} THEN 0
        ELSE CHOOSE i \in cand : \A j \in cand : i <= j

\* await asyncio.sleep(60), after a scan or after the except clause.
Sleeping == [pc |-> "sleep", current_time |-> 0, it_pos |-> 0, it_len |-> 0,
             wake_at |-> now + TickMinutes]

\* The start of _execute_schedule(name, config) up to its first await.
StartExec(n) == [pc |-> "ingest", name |-> n, attached |-> TRUE,
                 cb_pos |-> 0, cb_len |-> 0, hook |-> FALSE]

\* _scheduler_loop with its try/except around the while loop instead of inside
\* it: the RuntimeError of the iterator ends the task.
AdvanceUncaught(pos, current_time, len, sch, ent) ==
    IF Cardinality(DOMAIN sch) # len
    THEN [loop |-> [NoLoop EXCEPT !.pc = "cancelled"], ex |-> IdleExec]
    ELSE LET i == NextDue(pos, current_time, sch, ent)
         IN  IF i = 0
             THEN [loop |-> Sleeping, ex |-> IdleExec]
             ELSE [loop |-> [pc |-> "exec", current_time |-> current_time,
                             it_pos |-> i, it_len |-> len, wake_at |-> 0],
                   ex |-> StartExec(ent[i])]

\* The for loop of _scheduler_loop from the iterator's position pos up to the
\* loop's next await.  A dict whose size changed since iter() raises
\* RuntimeError at the next step of the iterator, which "except Exception"
\* turns into a sleep.
Advance(pos, current_time, len, sch, ent) ==
    IF Cardinality(DOMAIN sch) # len
    THEN [loop |-> Sleeping, ex |-> IdleExec]
    ELSE LET i == NextDue(pos, current_time, sch, ent)
         IN  IF i = 0
             THEN [loop |-> Sleeping, ex |-> IdleExec]
             ELSE [loop |-> [pc |-> "exec", current_time |-> current_time,
                             it_pos |-> i, it_len |-> len, wake_at |-> 0],
                   ex |-> StartExec(ent[i])]

\* The task self.task refers to exists and is not done.
LoopAlive == loop.pc \in {"ready", "exec", "sleep", "cancelling"}

\* start() without "if self.running: return".
StartUnguarded ==
    /\ Called
    /\ stop_pc = "idle"
    /\ running' = TRUE
    /\ loop' = [NoLoop EXCEPT !.pc = "ready"]
    /\ exec' = [exec EXCEPT ![LoopTask] = IdleExec]
    /\ entries' = Compact(entries)
    /\ orphans' = IF LoopAlive THEN orphans + 1 ELSE orphans
    /\ UNCHANGED <<now, schedules, ret, feed_state, stop_pc, callbacks, db, ingest, probe, fetch_all, race, cleanup, briefing>>

\* RSSScheduler.start(): nothing when already running; otherwise running is
\* set and self.task is bound to a new task of _scheduler_loop, whatever
\* became of the task it referred to.  start() and stop() are called one
\* after the other by the scheduler's owner.
Start ==
    /\ Called
    /\ stop_pc = "idle"
    /\ IF running
       THEN UNCHANGED <<running, loop, exec, entries, orphans>>
       ELSE /\ running' = TRUE
            /\ loop' = [NoLoop EXCEPT !.pc = "ready"]
            /\ exec' = [exec EXCEPT ![LoopTask] = IdleExec]
            /\ entries' = Compact(entries)
            /\ orphans' = IF LoopAlive THEN orphans + 1 ELSE orphans
    /\ UNCHANGED <<now, schedules, ret, feed_state, stop_pc, callbacks, db, ingest, probe, fetch_all, race, cleanup, briefing>>

\* stop() that does not await the task it cancelled.
StopCallNoAwait ==
    /\ Called
    /\ stop_pc = "idle"
    /\ running' = FALSE
    /\ loop' = IF LoopAlive THEN [NoLoop EXCEPT !.pc = "cancelling"] ELSE loop
    /\ entries' = Compact(entries)
    /\ UNCHANGED <<now, schedules, exec, ret, feed_state, stop_pc, orphans, callbacks, db, ingest, probe, fetch_all, race, cleanup, briefing>>

\* RSSScheduler.stop() up to "await self.task": running is cleared and the
\* task is cancelled; the CancelledError reaches it when the event loop next
\* runs it, and its iterator over self.schedules is never stepped again.  A
\* task that is None or done is not waited for: stop() returns at once.
StopCall ==
    /\ Called
    /\ stop_pc = "idle"
    /\ running' = FALSE
    /\ loop' = IF LoopAlive THEN [NoLoop EXCEPT !.pc = "cancelling"] ELSE loop
    /\ stop_pc' = IF LoopAlive THEN "waiting" ELSE "idle"
    /\ entries' = Compact(entries)
    /\ UNCHANGED <<now, schedules, exec, ret, feed_state, orphans, callbacks, db, ingest, probe, fetch_all, race, cleanup, briefing>>

\* The cancelled loop task is run: CancelledError is raised at the await it
\* is suspended at (asyncio.sleep, or an await inside the execution it is in)
\* and, not being an Exception, passes every "except Exception" on its way
\* out of _scheduler_loop.  The task is done.
CancelDelivered ==
    /\ loop.pc = "cancelling"
    /\ loop' = [NoLoop EXCEPT !.pc = "cancelled"]
    /\ exec' = [exec EXCEPT ![LoopTask] = IdleExec]
    /\ UNCHANGED <<now, schedules, entries, running, ret, feed_state, calls,
                   stop_pc, orphans, callbacks, db, ingest, probe, fetch_all, race, cleanup, briefing>>

\* "await self.task" of stop() ends with the task (its CancelledError is
\* caught) and stop() returns.
StopReturn ==
    /\ stop_pc = "waiting"
    /\ ~LoopAlive
    /\ stop_pc' = "idle"
    /\ UNCHANGED <<now, schedules, entries, running, loop, exec, ret, feed_state,
                   calls, orphans, callbacks, db, ingest, probe, fetch_all, race, cleanup, briefing>>

\* One pass of "while self.running": the first run of the task, or the wake-up
\* from asyncio.sleep(60).  The clock of the model stops at MaxTime while time
\* goes on, so at MaxTime a sleep may end whatever its wake-up time.
LoopTick ==
    /\ \/ loop.pc = "ready"
       \/ loop.pc = "sleep" /\ (now >= loop.wake_at \/ now = MaxTime)
    /\ running
    /\ LET r == Advance(0, now, Cardinality(DOMAIN schedules), schedules, entries)
       IN  /\ loop' = r.loop
           /\ exec' = [exec EXCEPT ![LoopTask] = r.ex]
    /\ UNCHANGED <<now, schedules, entries, running, ret, feed_state, calls, stop_pc, orphans, callbacks, db, ingest, probe, fetch_all, race, cleanup, briefing>>

\* ------------------------------------------------ _execute_schedule
\* What follows the return of task t's _execute_schedule, up to the next await:
\* the loop goes on with its scan, run_schedule_now returns its message.
Returned(t, path, sch) ==
    IF t = LoopTask
    THEN LET r == Advance(loop.it_pos, loop.current_time, loop.it_len, sch, entries)
         IN  /\ loop' = r.loop
             /\ exec' = [exec EXCEPT ![t] = r.ex]
             /\ entries' = IF r.loop.pc = "sleep" THEN Compact(entries) ELSE entries
             /\ ret' = ret
    ELSE /\ exec' = [exec EXCEPT ![t] = IdleExec]
         /\ ret' = [ret EXCEPT ![t] =
                      [kind |-> "message", name |-> exec[t].name, path |-> path]]
         /\ UNCHANGED <<loop, entries>>

\* How the ingest of an execution ends: refresh_feed for one feed (an error
\* result when the feed is missing or inactive), fetch_all_feeds otherwise;
\* fault: the store raises.
IngestPath(feed_id, fault) ==
    IF fault THEN "exception"
    ELSE IF feed_id # AllFeeds /\ feed_state[feed_id] # "active" THEN "error"
    ELSE "ok"

\* _execute_schedule without its "Update schedule timing" lines.
NotStamped(config) == config

\* "config.last_run = datetime.utcnow(); config.next_run = ..."
Stamped(config) ==
    LET c == [config EXCEPT !.last_run = now]
    IN  [c EXCEPT !.next_run = CalculateNextRun(c, now)]

\* _execute_callbacks from the end of the callback at position k (0: from its
\* start) up to its next await, for the execution e of task t.  The iterator
\* over self.callbacks raises RuntimeError when the dict has changed size, at
\* its last step as well, and _execute_schedule's except clause logs it; each
\* callback is awaited; the webhook is posted after the last one.
Dispatch(t, e, k, sch) ==
    IF Len(callbacks) # e.cb_len THEN Returned(t, "exception", sch)
    ELSE IF k < e.cb_len
    THEN /\ exec' = [exec EXCEPT ![t] = [e EXCEPT !.pc = "callbacks", !.cb_pos = k + 1]]
         /\ UNCHANGED <<loop, entries, ret>>
    ELSE IF e.hook
    THEN /\ exec' = [exec EXCEPT ![t] = [e EXCEPT !.pc = "webhook", !.cb_pos = 0]]
         /\ UNCHANGED <<loop, entries, ret>>
    ELSE Returned(t, "ok", sch)

\* The ingest of task t's execution completes: on an error result the call
\* returns, on an exception the except clause logs and the call returns;
\* otherwise the config object is stamped, _execute_callbacks looks the name
\* up (KeyError when it is gone) and starts on the callbacks.
IngestDone(t, fault) ==
    /\ exec[t].pc = "ingest"
    /\ t = LoopTask => loop.pc = "exec"
    /\ LET n == exec[t].name
           path == IngestPath(FeedOf(n), fault)
           sch == IF path = "ok" /\ exec[t].attached
                  THEN [schedules EXCEPT ![n] = Stamped(@)]
                  ELSE schedules
       IN  /\ schedules' = sch
           /\ IF path # "ok" THEN Returned(t, path, sch)
              ELSE IF ~Present(n) THEN Returned(t, "exception", sch)
              ELSE Dispatch(t, [exec[t] EXCEPT !.cb_len = Len(callbacks),
                                               !.hook = sch[n].callback_url # NoUrl],
                            0, sch)
    /\ UNCHANGED <<now, running, feed_state, calls, stop_pc, orphans, callbacks, db, ingest, probe, fetch_all, race, cleanup, briefing>>

\* The callback task t awaits ends, by returning or (raised) by raising an
\* Exception, which is logged: _execute_callbacks goes on either way.  A
\* coroutine callback may suspend, so other tasks may run before this step; a
\* callback that does not suspend is this step taken at once.
CallbackDone(t, raised) ==
    /\ exec[t].pc = "callbacks"
    /\ t = LoopTask => loop.pc = "exec"
    /\ Dispatch(t, exec[t], exec[t].cb_pos, schedules)
    /\ UNCHANGED <<now, schedules, running, feed_state, calls, stop_pc, orphans, callbacks, db, ingest, probe, fetch_all, race, cleanup, briefing>>

\* _execute_http_callback without its try/except: a failed connection raises
\* into _execute_schedule.
WebhookDoneUncaught(t, outcome) ==
    /\ exec[t].pc = "webhook"
    /\ t = LoopTask => loop.pc = "exec"
    /\ Returned(t, IF outcome = "failed" THEN "exception" ELSE "ok", schedules)
    /\ UNCHANGED <<now, schedules, running, feed_state, calls, stop_pc, orphans, callbacks, db, ingest, probe, fetch_all, race, cleanup, briefing>>

\* _execute_http_callback: the one POST ends; a status >= 400 and an exception
\* are logged, and the execution returns.
WebhookDone(t, outcome) ==
    /\ exec[t].pc = "webhook"
    /\ t = LoopTask => loop.pc = "exec"
    /\ Returned(t, "ok", schedules)
    /\ UNCHANGED <<now, schedules, running, feed_state, calls, stop_pc, orphans, callbacks, db, ingest, probe, fetch_all, race, cleanup, briefing>>

\* run_schedule_now without its "if name not in self.schedules" guard.
RunScheduleNowUnchecked(t, n) ==
    /\ Called
    /\ exec[t].pc = "idle"
    /\ ret' = [ret EXCEPT ![t] = NoRet]
    /\ exec' = [exec EXCEPT ![t] = StartExec(n)]
    /\ UNCHANGED <<now, schedules, entries, running, loop, feed_state, stop_pc, orphans, callbacks, db, ingest, probe, fetch_all, race, cleanup, briefing>>

\* RSSScheduler.run_schedule_now(name), called by task t.
RunScheduleNow(t, n) ==
    /\ Called
    /\ exec[t].pc = "idle"
    /\ IF ~Present(n)
       THEN /\ ret' = [ret EXCEPT ![t] = [kind |-> "error", name |-> n, path |-> "none"]]
            /\ exec' = exec
       ELSE /\ ret' = [ret EXCEPT ![t] = NoRet]
            /\ exec' = [exec EXCEPT ![t] = StartExec(n)]
    /\ UNCHANGED <<now, schedules, entries, running, loop, feed_state, stop_pc, orphans, callbacks, db, ingest, probe, fetch_all, race, cleanup, briefing>>

Next ==
    \/ Clock
    \/ \E n \in Names, iv \in Intervals : AddSchedule(n, iv, NoUrl)
    \/ \E n \in Names : RemoveSchedule(n)
    \/ \E n \in Names, keys \in SUBSET UpdateKeys, en \in BOOLEAN, iv \in Intervals :
          UpdateSchedule(n, keys, en, iv)
    \/ \E f \in FeedIds, s \in FeedStates : SetFeed(f, s)
    \/ Start
    \/ StopCall
    \/ CancelDelivered
    \/ StopReturn
    \/ LoopTick
    \/ \E t \in TaskIds, fault \in BOOLEAN : IngestDone(t, fault)
    \/ \E t \in TaskIds, raised \in BOOLEAN : CallbackDone(t, raised)
    \/ \E t \in ManualCallers, n \in Names : RunScheduleNow(t, n)

Spec == Init /\ [][Next]_vars

\* -------------------------------------- callbacks and webhooks at large
\* RSSScheduler.register_callback(name, callback): a new name is added to
\* self.callbacks, a registered one gets the new callable.
RegisterCallback(c) ==
    /\ Called
    /\ callbacks' = IF \E i \in 1..Len(callbacks) : callbacks[i] = c
                    THEN callbacks ELSE Append(callbacks, c)
    /\ UNCHANGED <<now, schedules, entries, running, loop, exec, ret, feed_state,
                   stop_pc, orphans, db, ingest, probe, fetch_all, race, cleanup, briefing>>

\* The scheduler as RSSScheduler.__init__ leaves it: no callback is
\* registered, and the ones registered later are the owner's callables.
DispatchInit ==
    /\ now = 0
    /\ schedules = <<>>
    /\ entries = <<>>
    /\ running = FALSE
    /\ loop = NoLoop
    /\ exec = [t \in TaskIds |-> IdleExec]
    /\ ret = [t \in ManualCallers |-> NoRet]
    /\ feed_state \in [FeedIds -> FeedStates]
    /\ calls = 0
    /\ stop_pc = "idle"
    /\ orphans = 0
    /\ callbacks = <<>>
    /\ db = EmptyDb
    /\ ingest = NoIngest
    /\ probe = NoProbe
    /\ fetch_all = NoFetchAll
    /\ race = NoRace
    /\ cleanup = NoCleanup
    /\ briefing = NoBriefing

\* The scheduler with schedules that may have a webhook and with callbacks
\* registered while it runs.  Schedules are added with an interval of one tick
\* and are not updated, and the feeds are as they were at the start.
DispatchNext ==
    \/ Clock
    \/ \E n \in Names, url \in WebhookUrls : AddSchedule(n, TickMinutes, url)
    \/ \E n \in Names : RemoveSchedule(n)
    \/ \E c \in CallbackNames : RegisterCallback(c)
    \/ Start
    \/ StopCall
    \/ CancelDelivered
    \/ StopReturn
    \/ LoopTick
    \/ \E t \in TaskIds, fault \in BOOLEAN : IngestDone(t, fault)
    \/ \E t \in TaskIds, raised \in BOOLEAN : CallbackDone(t, raised)
    \/ \E t \in TaskIds, outcome \in PostOutcomes : WebhookDone(t, outcome)
    \/ \E t \in ManualCallers, n \in Names : RunScheduleNow(t, n)

DispatchSpec == DispatchInit /\ [][DispatchNext]_vars

\* ------------------------------------------------- the ingest of a feed
schedulerVars ==
    <<now, schedules, entries, running, loop, exec, ret, feed_state, calls,
      stop_pc, orphans, callbacks>>

\* An error is printed during the first run (first_errors); the first run
\* got the feed content from the fetcher (first_fetched); a save_article of
\* the current run raised (save_failed).
Logged(ing, error) ==
    [ing EXCEPT !.first_errors = @ \/ (error /\ ing.run = "first")]

\* "continue" and the end of "for article in articles[:max_articles]": the
\* next candidate is checked, or the feed's last_fetched is updated.
NextCandidate(ing) ==
    [ing EXCEPT !.pos = @ + 1,
                !.pc = IF ing.pos < Len(ing.content) THEN "check" ELSE "update"]

\* fetch_feed_articles without its outer try: what fetch_feed raises reaches
\* the caller.
FetchFeedUncaught(fault) ==
    /\ ingest.pc = "idle"
    /\ ingest.run # "second"
    /\ LET run == IF ingest.run = NoRun THEN "first" ELSE "second"
           ing == [ingest EXCEPT !.run = run, !.saved = <<>>, !.pos = 0,
                                 !.save_failed = FALSE,
                                 !.first_fetched = @ \/ (run = "first" /\ ~fault)]
       IN  ingest' = IF fault
                     THEN Logged([ing EXCEPT !.ret = <<"exception">>], TRUE)
                     ELSE NextCandidate(ing)
    /\ UNCHANGED db
    /\ UNCHANGED <<schedulerVars, probe, fetch_all, race, cleanup, briefing>>

\* RSSManager.fetch_feed_articles is called and rss_fetcher.fetch_feed ends:
\* it raises (the outer except returns []), or it returns the feed content,
\* which max_articles does not cut (both limits are 10 by default).  A
\* fetcher that gives up without raising returns no entry: an empty content.
FetchFeed(fault) ==
    /\ ingest.pc = "idle"
    /\ ingest.run # "second"
    /\ LET run == IF ingest.run = NoRun THEN "first" ELSE "second"
           ing == [ingest EXCEPT !.run = run, !.saved = <<>>, !.pos = 0,
                                 !.save_failed = FALSE,
                                 !.first_fetched = @ \/ (run = "first" /\ ~fault)]
       IN  ingest' = IF fault
                     THEN Logged([ing EXCEPT !.ret = <<>>], TRUE)
                     ELSE NextCandidate(ing)
    /\ UNCHANGED db
    /\ UNCHANGED <<schedulerVars, probe, fetch_all, race, cleanup, briefing>>

\* A duplicate check that records the candidate it has seen in the store.
DupCheckRecording(fault) ==
    /\ ingest.pc = "check"
    /\ LET article == ingest.content[ingest.pos]
           ing == Logged(ingest, ReadFails(article, db.articles, fault))
       IN  /\ ingest' = IF IsDuplicateArticle(article, db.articles, fault)
                        THEN NextCandidate(ing)
                        ELSE [ing EXCEPT !.pc = "save"]
           /\ db' = [db EXCEPT !.articles = @ \cup {Persisted(article)}]
    /\ UNCHANGED <<schedulerVars, probe, fetch_all, race, cleanup, briefing>>

\* "if await self._is_duplicate_article(article, feed): continue": the
\* candidate at hand is checked against the store.
DupCheck(fault) ==
    /\ ingest.pc = "check"
    /\ LET article == ingest.content[ingest.pos]
           ing == Logged(ingest, ReadFails(article, db.articles, fault))
       IN  ingest' = IF IsDuplicateArticle(article, db.articles, fault)
                     THEN NextCandidate(ing)
                     ELSE [ing EXCEPT !.pc = "save"]
    /\ UNCHANGED db
    /\ UNCHANGED <<schedulerVars, probe, fetch_all, race, cleanup, briefing>>

\* save_article without its session.commit(): an id is returned and no row
\* is stored.
SaveArticleNoCommit(fault) ==
    /\ ingest.pc = "save"
    /\ LET article == ingest.content[ingest.pos]
           taken == \E e \in db.articles : e.url = article.url
       IN  IF fault \/ taken
           THEN /\ ingest' = NextCandidate(
                               Logged([ingest EXCEPT !.save_failed = TRUE], TRUE))
                /\ UNCHANGED db
           ELSE /\ ingest' = NextCandidate([ingest EXCEPT !.saved = Append(@, article)])
                /\ UNCHANGED db
    /\ UNCHANGED <<schedulerVars, probe, fetch_all, race, cleanup, briefing>>

\* fetch_feed_articles without its per-article try: what save_article
\* raises goes to the outer except, which returns [].
SaveArticleUncaught(fault) ==
    /\ ingest.pc = "save"
    /\ LET article == ingest.content[ingest.pos]
           taken == \E e \in db.articles : e.url = article.url
       IN  IF fault \/ taken
           THEN /\ ingest' = Logged([ingest EXCEPT !.save_failed = TRUE,
                                                    !.pc = "idle", !.ret = <<>>], TRUE)
                /\ UNCHANGED db
           ELSE /\ ingest' = NextCandidate([ingest EXCEPT !.saved = Append(@, article)])
                /\ db' = [db EXCEPT !.articles = @ \cup {Persisted(article)}]
    /\ UNCHANGED <<schedulerVars, probe, fetch_all, race, cleanup, briefing>>

\* "article_id = await self.db.save_article(article)": the row is inserted
\* and the article joins saved_articles, or the store raises (also when the
\* URL is taken: the column is unique) and the per-article except goes on
\* to the next candidate.
SaveArticle(fault) ==
    /\ ingest.pc = "save"
    /\ LET article == ingest.content[ingest.pos]
           taken == \E e \in db.articles : e.url = article.url
       IN  IF fault \/ taken
           THEN /\ ingest' = NextCandidate(
                               Logged([ingest EXCEPT !.save_failed = TRUE], TRUE))
                /\ UNCHANGED db
           ELSE /\ ingest' = NextCandidate([ingest EXCEPT !.saved = Append(@, article)])
                /\ db' = [db EXCEPT !.articles = @ \cup {Persisted(article)}]
    /\ UNCHANGED <<schedulerVars, probe, fetch_all, race, cleanup, briefing>>

\* "await self.db.update_feed(feed.id, last_fetched=...); return
\* saved_articles", or the store raises and the outer except returns [].
\* last_fetched is modelled by the run that wrote it.
UpdateFeed(fault) ==
    /\ ingest.pc = "update"
    /\ IF fault
       THEN /\ ingest' = Logged([ingest EXCEPT !.pc = "idle", !.ret = <<>>], TRUE)
            /\ UNCHANGED db
       ELSE /\ ingest' = [ingest EXCEPT !.pc = "idle", !.ret = ingest.saved]
            /\ db' = [db EXCEPT !.last_fetched = ingest.run]
    /\ UNCHANGED <<schedulerVars, probe, fetch_all, race, cleanup, briefing>>

\* A feed content, and a store that is empty or holds one article of another
\* feed; the scheduler is idle.
IngestInit ==
    /\ now = 0
    /\ schedules = <<>>
    /\ entries = <<>>
    /\ running = FALSE
    /\ loop = NoLoop
    /\ exec = [t \in TaskIds |-> IdleExec]
    /\ ret = [t \in ManualCallers |-> NoRet]
    /\ feed_state = [f \in FeedIds |-> "active"]
    /\ calls = 0
    /\ stop_pc = "idle"
    /\ orphans = 0
    /\ callbacks = <<>>
    /\ db \in {EmptyDb, [EmptyDb EXCEPT !.articles = {ForeignArticle}]}
    /\ \E content \in FeedContents : ingest = [NoIngest EXCEPT !.content = content]
    /\ probe = NoProbe
    /\ fetch_all = NoFetchAll
    /\ race = NoRace
    /\ cleanup = NoCleanup
    /\ briefing = NoBriefing

IngestNext ==
    \/ \E fault \in BOOLEAN : FetchFeed(fault)
    \/ \E fault \in ReadFaults : DupCheck(fault)
    \/ \E fault \in BOOLEAN : SaveArticle(fault)
    \/ \E fault \in BOOLEAN : UpdateFeed(fault)

IngestSpec == IngestInit /\ [][IngestNext]_vars

\* --------------------------------------- the duplicate check by itself
\* The scheduler idle: no schedule, no loop task, no callback.
SchedulerIdle ==
    /\ now = 0
    /\ schedules = <<>>
    /\ entries = <<>>
    /\ running = FALSE
    /\ loop = NoLoop
    /\ exec = [t \in TaskIds |-> IdleExec]
    /\ ret = [t \in ManualCallers |-> NoRet]
    /\ feed_state = [f \in FeedIds |-> "active"]
    /\ calls = 0
    /\ stop_pc = "idle"
    /\ orphans = 0
    /\ callbacks = <<>>

\* The scheduler idle, the store empty and no ingest under way.
Quiet ==
    /\ SchedulerIdle
    /\ db = EmptyDb
    /\ ingest = NoIngest

\* self._titles_similar(article.title, existing_article.title) on the two
\* titles of the probe.
CompareTitles ==
    /\ probe.pc = "ready"
    /\ probe' = [probe EXCEPT
                    !.pc = "compared",
                    !.similar = TitlesSimilar(probe.article.title, probe.stored.title)]
    /\ UNCHANGED <<schedulerVars, db, ingest, fetch_all, race, cleanup, briefing>>

\* self._is_duplicate_article(article, feed) with the stored article as the
\* only row of the store.
CheckDuplicate(fault) ==
    /\ probe.pc = "compared"
    /\ probe' = [probe EXCEPT
                    !.pc = "checked",
                    !.fault = fault,
                    !.duplicate = IsDuplicateArticle(probe.article, {probe.stored}, fault)]
    /\ UNCHANGED <<schedulerVars, db, ingest, fetch_all, race, cleanup, briefing>>

DedupInit ==
    /\ Quiet
    /\ fetch_all = NoFetchAll
    /\ race = NoRace
    /\ cleanup = NoCleanup
    /\ briefing = NoBriefing
    /\ \E a \in ProbeCandidates, e \in ProbeStored :
          probe = [NoProbe EXCEPT !.pc = "ready", !.article = a, !.stored = e]

DedupNext ==
    \/ CompareTitles
    \/ \E fault \in ReadFaults : CheckDuplicate(fault)

DedupSpec == DedupInit /\ [][DedupNext]_vars

\* ------------------------------------------------ fetch_all_feeds
\* "results[feed_name] = articles".
Assigned(results, name, articles) ==
    [n \in DOMAIN results \cup {name} |->
        IF n = name THEN articles ELSE results[n]]

\* "for feed_name, task in tasks: articles = await task": the coroutine of
\* feed i has returned `articles`; its entry is written and the next
\* coroutine is awaited, which starts it, or fetch_all_feeds returns.
Awaited(fa, i, articles, fails) ==
    [fa EXCEPT
        !.status = [j \in 1..Len(fa.feeds) |->
                       IF j = i THEN "done"
                       ELSE IF j = i + 1 THEN "fetching" ELSE fa.status[j]],
        !.returned = [@ EXCEPT ![i] = articles],
        !.failed = IF fails THEN @ \cup {i} ELSE @,
        !.results = Assigned(fa.results, fa.feeds[i], articles),
        !.pc = IF i < Len(fa.feeds) THEN "awaiting" ELSE "returned"]

\* RSSManager.fetch_all_feeds is called: "feeds = await
\* self.get_active_feeds()" is awaited.
FetchAllFeeds ==
    /\ fetch_all.pc = "idle"
    /\ fetch_all' = [fetch_all EXCEPT !.pc = "get_feeds"]
    /\ UNCHANGED <<schedulerVars, db, ingest, probe, race, cleanup, briefing>>

\* get_feeds returns the active feeds, or [] when the store raises; one
\* coroutine object per feed is made, none is started; the first is awaited.
GetActiveFeeds(fault) ==
    /\ fetch_all.pc = "get_feeds"
    /\ LET feeds == IF fault THEN <<>> ELSE fetch_all.feeds
       IN  fetch_all' =
               [fetch_all EXCEPT
                   !.feeds = feeds,
                   !.status = [j \in 1..Len(feeds) |->
                                  IF j = 1 THEN "fetching" ELSE "created"],
                   !.returned = [j \in 1..Len(feeds) |-> <<>>],
                   !.pc = IF feeds = <<>> THEN "returned" ELSE "awaiting"]
    /\ UNCHANGED <<schedulerVars, db, ingest, probe, race, cleanup, briefing>>

\* fetch_all_feeds with asyncio.gather on the coroutines and no
\* return_exceptions: a fetch that raises ends the aggregate call.
FeedFetchedUnshielded(i, fault) ==
    /\ i \in 1..Len(fetch_all.status)
    /\ fetch_all.status[i] = "fetching"
    /\ fetch_all' =
           IF fault THEN [fetch_all EXCEPT !.pc = "raised", !.failed = @ \cup {i},
                                           !.status[i] = "done"]
           ELSE [fetch_all EXCEPT !.status[i] = "storing"]
    /\ UNCHANGED <<schedulerVars, db, ingest, probe, race, cleanup, briefing>>

\* The fetch of feed i's fetch_feed_articles ends: it raises and the ingest
\* returns [] (its outer except), or the candidates are processed next.
FeedFetched(i, fault) ==
    /\ i \in 1..Len(fetch_all.status)
    /\ fetch_all.status[i] = "fetching"
    /\ fetch_all' =
           IF fault THEN Awaited(fetch_all, i, <<>>, TRUE)
           ELSE [fetch_all EXCEPT !.status[i] = "storing"]
    /\ UNCHANGED <<schedulerVars, db, ingest, probe, race, cleanup, briefing>>

\* Feed i's fetch_feed_articles returns its saved articles: none, or one
\* (named by the feed's position).
FeedIngested(i, new) ==
    /\ i \in 1..Len(fetch_all.status)
    /\ fetch_all.status[i] = "storing"
    /\ fetch_all' = Awaited(fetch_all, i, IF new THEN <<i>> ELSE <<>>, FALSE)
    /\ UNCHANGED <<schedulerVars, db, ingest, probe, race, cleanup, briefing>>

\* "total_new = sum(len(articles) for articles in results.values())": the
\* new_articles of the update_result an all-feeds execution hands to the
\* callbacks.
RECURSIVE TotalNew(_)
TotalNew(results) ==
    IF DOMAIN results = {} THEN 0
    ELSE LET name == CHOOSE n \in DOMAIN results : TRUE
         IN  Len(results[name])
                 + TotalNew([n \in DOMAIN results \ {name} |-> results[n]])

\* The number of articles the ingests of the call have saved: each returns
\* the articles it saved.
RECURSIVE SavedByIngests(_)
SavedByIngests(returned) ==
    IF returned = <<>> THEN 0
    ELSE Len(Head(returned)) + SavedByIngests(Tail(returned))

FetchAllInit ==
    /\ Quiet
    /\ probe = NoProbe
    /\ race = NoRace
    /\ cleanup = NoCleanup
    /\ briefing = NoBriefing
    /\ \E feeds \in ActiveFeeds : fetch_all = [NoFetchAll EXCEPT !.feeds = feeds]

FetchAllNext ==
    \/ FetchAllFeeds
    \/ \E fault \in BOOLEAN : GetActiveFeeds(fault)
    \/ \E i \in 1..MaxFeeds, fault \in BOOLEAN : FeedFetched(i, fault)
    \/ \E i \in 1..MaxFeeds, new \in BOOLEAN : FeedIngested(i, new)

FetchAllSpec == FetchAllInit /\ [][FetchAllNext]_vars

\* ------------------------------------------- generate_rss_briefing
\* "order_by(ArticleTable.created_at.desc())".
RECURSIVE NewestFirst(_)
NewestFirst(rows) ==
    IF rows = {} THEN <<>>
    ELSE LET r == CHOOSE r \in rows : \A o \in rows : o.created_at <= r.created_at
         IN  <<r>> \o NewestFirst(rows \ {r})

\* list[:k].
Take(list, k) == SubSeq(list, 1, IF k < Len(list) THEN k ELSE Len(list))

\* Database.get_articles_since(cutoff_date, limit).
GetArticlesSince(rows, cutoff_date, limit) ==
    Take(NewestFirst({r \in rows : r.created_at >= cutoff_date}), limit)

\* The sort key "(priority_order.get(a.priority.value, 4), a.created_at)" of
\* a is greater than that of b.
KeyAbove(a, b) ==
    \/ PriorityOrder[a.priority] > PriorityOrder[b.priority]
    \/ /\ PriorityOrder[a.priority] = PriorityOrder[b.priority]
       /\ a.created_at > b.created_at

\* list.sort(key=..., reverse=True): greatest key first, equal keys in the
\* order they had.
RECURSIVE SortReverse(_)
SortReverse(list) ==
    IF list = <<>> THEN <<>>
    ELSE LET i == CHOOSE i \in 1..Len(list) :
                      /\ \A j \in 1..Len(list) : ~KeyAbove(list[j], list[i])
                      /\ \A j \in 1..(i - 1) : KeyAbove(list[i], list[j])
         IN  <<list[i]>> \o SortReverse(SubSeq(list, 1, i - 1)
                                          \o SubSeq(list, i + 1, Len(list)))

\* "rss_articles = [a for a in recent_articles if a.source]".
RssArticles(recent) == SelectSeq(recent, LAMBDA a : a.source # NoSource)

\* The grouping of generate_rss_briefing without the cut
\* "[:config.max_articles_per_feed]".
ArticlesByFeedUncut(recent, config) ==
    LET rss == RssArticles(recent)
        names == {rss[i].source : i \in 1..Len(rss)}
        grouped ==
            IF config.group_by_feed
            THEN [name \in names |->
                     SelectSeq(rss, LAMBDA a : a.source = name)]
            ELSE [name \in {AllFeedsKey} |-> Take(rss, config.max_total_articles)]
    IN  IF config.sort_by_priority
        THEN [name \in DOMAIN grouped |-> SortReverse(grouped[name])]
        ELSE grouped

\* articles_by_feed of generate_rss_briefing: the sourced articles grouped by
\* source and cut to max_articles_per_feed, or one "All Feeds" list cut to
\* max_total_articles; then each list sorted when sort_by_priority.
ArticlesByFeed(recent, config) ==
    LET rss == RssArticles(recent)
        names == {rss[i].source : i \in 1..Len(rss)}
        grouped ==
            IF config.group_by_feed
            THEN [name \in names |->
                     Take(SelectSeq(rss, LAMBDA a : a.source = name),
                          config.max_articles_per_feed)]
            ELSE [name \in {AllFeedsKey} |-> Take(rss, config.max_total_articles)]
    IN  IF config.sort_by_priority
        THEN [name \in DOMAIN grouped |-> SortReverse(grouped[name])]
        ELSE grouped

\* The day generate_rss_briefing is called: that of the newest article.
Today(rows) == Cardinality(rows)

\* "cutoff_date = datetime.utcnow() - timedelta(days=config.days_back)".
CutoffDate(rows, days_back) == Today(rows) - days_back

\* generate_rss_briefing is called and its read of the store ends: the
\* recent articles, or the store raises and so does the call.
ReadRecent(fault) ==
    /\ briefing.pc = "ready"
    /\ briefing' =
           IF fault THEN [briefing EXCEPT !.pc = "raised"]
           ELSE [briefing EXCEPT
                    !.pc = "read",
                    !.recent = GetArticlesSince(
                                   db.articles,
                                   CutoffDate(db.articles, briefing.config.days_back),
                                   briefing.config.max_total_articles)]
    /\ UNCHANGED <<schedulerVars, db, ingest, probe, fetch_all, race, cleanup>>

\* get_active_feeds has answered (it raises nothing); the lists are made
\* and the briefing is returned.
BuildBriefing ==
    /\ briefing.pc = "read"
    /\ briefing' = [briefing EXCEPT
                       !.pc = "done",
                       !.lists = ArticlesByFeed(briefing.recent, briefing.config)]
    /\ UNCHANGED <<schedulerVars, db, ingest, probe, fetch_all, race, cleanup>>

BriefingInit ==
    /\ SchedulerIdle
    /\ ingest = NoIngest
    /\ probe = NoProbe
    /\ fetch_all = NoFetchAll
    /\ race = NoRace
    /\ cleanup = NoCleanup
    /\ \E n \in 0..MaxRows : \E rows \in BriefingRows(n) :
          db = [EmptyDb EXCEPT !.articles = rows]
    /\ \E config \in BriefingConfigs :
          briefing = [NoBriefing EXCEPT !.pc = "ready", !.config = config]

BriefingNext ==
    \/ \E fault \in BOOLEAN : ReadRecent(fault)
    \/ BuildBriefing

BriefingSpec == BriefingInit /\ [][BriefingNext]_vars

\* ------------------------- ingests side by side, cleanup_duplicates
\* _is_duplicate_article for a candidate of the feed named `source`, every
\* read answering.
IsDuplicateFor(article, source, rows) ==
    \/ \E e \in rows : e.url = article.url
    \/ TitleMatch(article, BySource(rows, source))
    \/ HashMatch(article, BySource(rows, source))

\* "if await self._is_duplicate_article(article, feed): continue" in the
\* call of racer k.
RaceCheck(k) ==
    /\ k \in DOMAIN race
    /\ race[k].pc = "check"
    /\ LET dup == IsDuplicateFor(race[k].article, race[k].feed, db.articles)
       IN  race' = [race EXCEPT ![k].pc = IF dup THEN "done" ELSE "save",
                                ![k].outcome = IF dup THEN "duplicate" ELSE "new"]
    /\ UNCHANGED <<schedulerVars, db, ingest, probe, fetch_all, cleanup, briefing>>

\* save_article on a table whose url column is not unique.
RaceSaveUnconstrained(k) ==
    /\ k \in DOMAIN race
    /\ race[k].pc = "save"
    /\ race' = [race EXCEPT ![k].pc = "done", ![k].outcome = "saved"]
    /\ db' = [db EXCEPT !.articles =
                  @ \cup {RaceRow(race[k].article, race[k].feed, k, db.articles)}]
    /\ UNCHANGED <<schedulerVars, ingest, probe, fetch_all, cleanup, briefing>>

\* "article_id = await self.db.save_article(article)" in the call of racer
\* k: the row is inserted, or the commit raises because the URL is stored
\* (the url column is unique) and the per-article except drops the
\* candidate.
RaceSave(k) ==
    /\ k \in DOMAIN race
    /\ race[k].pc = "save"
    /\ IF \E e \in db.articles : e.url = race[k].article.url
       THEN /\ race' = [race EXCEPT ![k].pc = "done", ![k].outcome = "rejected"]
            /\ UNCHANGED db
       ELSE /\ race' = [race EXCEPT ![k].pc = "done", ![k].outcome = "saved"]
            /\ db' = [db EXCEPT !.articles =
                          @ \cup {RaceRow(race[k].article, race[k].feed, k, db.articles)}]
    /\ UNCHANGED <<schedulerVars, ingest, probe, fetch_all, cleanup, briefing>>

\* "articles_by_source": the recent articles source by source, the sources
\* in the order they first appear, each source's articles newest first
\* (the order the store returned them in, which the sort keeps).
RECURSIVE GroupedBySource(_)
GroupedBySource(recent) ==
    IF recent = <<>> THEN <<>>
    ELSE LET source == Head(recent).source
         IN  SelectSeq(recent, LAMBDA a : a.source = source)
                 \o GroupedBySource(SelectSeq(recent, LAMBDA a : a.source # source))

\* The sources of a list of articles.
SourcesOf(work) == {work[i].source : i \in 1..Len(work)}

\* RSSManager._remove_article_from_db: whether the article was removed, and
\* the rows of the table after it.  Its first statement reads the name
\* SQLALCHEMY_AVAILABLE, which rss_manager.py neither defines nor imports:
\* the NameError is caught and the answer is False.
RemoveArticleFromDb(rows, article_id) == [removed |-> FALSE, rows |-> rows]

\* The report of a cleanup that ran to its end.
CleanupReport(c) ==
    [success |-> TRUE, total_articles |-> Len(c.work),
     duplicates_found |-> c.duplicates_found,
     duplicates_removed |-> c.duplicates_removed,
     sources_checked |-> Cardinality(SourcesOf(c.work))]

\* cleanup_duplicates is called and its read of the store ends: the store
\* raises (the report says failure), there is no recent article, or the
\* articles are grouped and the scan begins.  Every article of the store is
\* within days_back.
CleanupStart(fault) ==
    /\ cleanup.pc = "idle"
    /\ LET work == GroupedBySource(NewestFirst(db.articles))
       IN  cleanup' =
               IF fault
               THEN [cleanup EXCEPT !.pc = "returned", !.report = [success |-> FALSE]]
               ELSE IF work = <<>>
               THEN [cleanup EXCEPT
                        !.pc = "returned",
                        !.report = [success |-> TRUE, total_articles |-> 0,
                                    duplicates_found |-> 0, duplicates_removed |-> 0]]
               ELSE [cleanup EXCEPT !.pc = "scan", !.work = work, !.pos = 1]
    /\ UNCHANGED <<schedulerVars, db, ingest, probe, fetch_all, race, briefing>>

\* What the body of "for article in articles" finds for the article at hand
\* and leaves in the seen_* collections; these start empty with each source.
Examined(c) ==
    LET article == c.work[c.pos]
        fresh == c.pos = 1 \/ c.work[c.pos - 1].source # article.source
        urls == IF fresh THEN {} ELSE c.seen_urls
        titles == IF fresh THEN <<>> ELSE c.seen_titles
        hashes == IF fresh THEN {} ELSE c.seen_content_hashes
        url_dup == article.url \in urls
        title_key == Normalize(article.title)
        title_read == ~url_dup /\ article.title # <<>>
        title_dup ==
            /\ title_read
            /\ \E seen_title \in DOMAIN titles :
                  /\ TitlesSimilar(title_key, seen_title)
                  /\ article.published_date # NoDate
                  /\ titles[seen_title] # NoDate
                  /\ AbsDiff(article.published_date, titles[seen_title]) * 3600
                         < DaySeconds
        content_hash == GetContentHash(article.content)
        content_read == ~url_dup /\ ~title_dup /\ article.content # <<>>
                           /\ content_hash # NoHash
        content_dup == content_read /\ content_hash \in hashes
    IN  [is_duplicate |-> url_dup \/ title_dup \/ content_dup,
         seen_urls |-> urls \cup {article.url},
         seen_titles |->
             IF title_read /\ ~title_dup
             THEN [t \in DOMAIN titles \cup {title_key} |->
                      IF t = title_key THEN article.published_date ELSE titles[t]]
             ELSE titles,
         seen_content_hashes |->
             IF content_read /\ ~content_dup THEN hashes \cup {content_hash}
             ELSE hashes]

\* cleanup_duplicates in which a removal that fails raises: the outer except
\* reports failure.
ExamineArticleAborting ==
    /\ cleanup.pc = "scan"
    /\ LET e == Examined(cleanup)
           article == cleanup.work[cleanup.pos]
           removal == RemoveArticleFromDb(db.articles, article.id)
       IN  /\ cleanup' =
                 IF e.is_duplicate /\ ~removal.removed
                 THEN [cleanup EXCEPT !.pc = "returned",
                                      !.report = [success |-> FALSE]]
                 ELSE LET c == [cleanup EXCEPT
                                   !.seen_urls = e.seen_urls,
                                   !.seen_titles = e.seen_titles,
                                   !.seen_content_hashes = e.seen_content_hashes,
                                   !.pos = @ + 1]
                      IN  IF cleanup.pos < Len(cleanup.work) THEN c
                          ELSE [c EXCEPT !.pc = "returned", !.report = CleanupReport(c)]
           /\ db' = db
    /\ UNCHANGED <<schedulerVars, ingest, probe, fetch_all, race, briefing>>

\* One turn of "for article in articles" of cleanup_duplicates: the article
\* is compared with what was seen of its source; a duplicate is counted and
\* its removal is asked for; after the last article the report is returned.
ExamineArticle ==
    /\ cleanup.pc = "scan"
    /\ LET e == Examined(cleanup)
           article == cleanup.work[cleanup.pos]
           removal == IF e.is_duplicate
                      THEN RemoveArticleFromDb(db.articles, article.id)
                      ELSE [removed |-> FALSE, rows |-> db.articles]
           c == [cleanup EXCEPT
                    !.seen_urls = e.seen_urls,
                    !.seen_titles = e.seen_titles,
                    !.seen_content_hashes = e.seen_content_hashes,
                    !.flagged = IF e.is_duplicate THEN @ \cup {article} ELSE @,
                    !.duplicates_found = IF e.is_duplicate THEN @ + 1 ELSE @,
                    !.duplicates_removed = IF removal.removed THEN @ + 1 ELSE @,
                    !.pos = @ + 1]
       IN  /\ cleanup' = IF cleanup.pos < Len(cleanup.work) THEN c
                         ELSE [c EXCEPT !.pc = "returned", !.report = CleanupReport(c)]
           /\ db' = [db EXCEPT !.articles = removal.rows]
    /\ UNCHANGED <<schedulerVars, ingest, probe, fetch_all, race, briefing>>

\* Three ingests about to check their candidates on an empty store, the
\* last two of the same feed and the first of that feed or of another; no
\* cleanup yet.
CleanupInit ==
    /\ Quiet
    /\ probe = NoProbe
    /\ fetch_all = NoFetchAll
    /\ briefing = NoBriefing
    /\ cleanup = NoCleanup
    /\ \E articles \in [Racers -> RaceCandidates], first \in {FeedName, OtherSource} :
          race = [k \in Racers |->
                     [article |-> articles[k],
                      feed |-> IF k = "tick" THEN first ELSE FeedName,
                      pc |-> "check", outcome |-> "none"]]

CleanupNext ==
    \/ \E k \in Racers : RaceCheck(k)
    \/ \E k \in Racers : RaceSave(k)
    \/ \E fault \in BOOLEAN : CleanupStart(fault)
    \/ ExamineArticle

CleanupSpec == CleanupInit /\ [][CleanupNext]_vars

\* Time passes, the event loop resumes the loop task when it can run, and the
\* executions the loop task awaits terminate.
LiveSpec ==
    /\ Spec
    /\ WF_vars(Clock)
    /\ WF_vars(LoopTick)
    /\ WF_vars(CancelDelivered)
    /\ WF_vars(StopReturn)
    /\ WF_vars(\E fault \in BOOLEAN : IngestDone(LoopTask, fault))
    /\ WF_vars(\E raised \in BOOLEAN : CallbackDone(LoopTask, raised))

\* The scheduler with the callers that change the registry and no manual
\* runs: add_schedule, remove_schedule, update_schedule(enabled=...), start and
\* stop, beside the clock and the loop task with the executions it awaits.
MutationNext ==
    \/ Clock
    \/ \E n \in Names, iv \in Intervals : AddSchedule(n, iv, NoUrl)
    \/ \E n \in Names : RemoveSchedule(n)
    \/ \E n \in Names, en \in BOOLEAN : UpdateSchedule(n, {"enabled"}, en, 1)
    \/ Start
    \/ StopCall
    \/ CancelDelivered
    \/ StopReturn
    \/ LoopTick
    \/ \E fault \in BOOLEAN : IngestDone(LoopTask, fault)
    \/ \E raised \in BOOLEAN : CallbackDone(LoopTask, raised)

\* MutationNext under the fairness of LiveSpec.
MutationSpec ==
    /\ Init /\ [][MutationNext]_vars
    /\ WF_vars(Clock)
    /\ WF_vars(LoopTick)
    /\ WF_vars(CancelDelivered)
    /\ WF_vars(StopReturn)
    /\ WF_vars(\E fault \in BOOLEAN : IngestDone(LoopTask, fault))
    /\ WF_vars(\E raised \in BOOLEAN : CallbackDone(LoopTask, raised))

\* ----------------------------------------------------------- claims
\* The step is one in which the loop starts an execution.
LoopStartsExecution ==
    /\ loop'.pc = "exec"
    /\ loop.pc # "exec" \/ loop'.it_pos # loop.it_pos

\* C1: after any sequence of add_schedule, update_schedule, loop executions and
\* run_schedule_now calls, a config with last_run set has next_run = last_run +
\* interval_minutes, and a config that never ran has next_run = (time of its
\* most recent add/update) + interval_minutes: it is set to now + interval by
\* the step that adds or updates it and is left alone by every other step.
\* (A step that leaves the config as it is can only be an add or an update
\* with the config's own interval and enabled flag, and it counts as a call.)
C1_NextRunFollowsLastRun ==
    [][\A n \in DOMAIN schedules' :
          LET c == schedules'[n]
          IN  IF c.last_run # NoTime
              THEN c.next_run = c.last_run + c.interval_minutes
              ELSE \/ c.next_run = now' + c.interval_minutes
                   \/ /\ n \in DOMAIN schedules /\ schedules[n] = c
                      /\ \/ calls' = calls
                         \/ /\ ~AddSchedule(n, c.interval_minutes, c.callback_url)
                            /\ ~(\E keys \in SUBSET UpdateKeys :
                                    UpdateSchedule(n, keys, c.enabled,
                                                   c.interval_minutes))]_vars

\* C1 witness: one config has run at an earlier time (so that now + interval
\* and last_run + interval differ) and another one, never run, was added or
\* updated after time 0.
C1_Witness ==
    \E n, m \in DOMAIN schedules :
        /\ schedules[n].last_run # NoTime
        /\ schedules[n].last_run < now
        /\ schedules[m].last_run = NoTime
        /\ schedules[m].next_run = now + schedules[m].interval_minutes

\* C2: the loop starts an execution of a config only if, when the scan tests
\* it, the config is enabled and its next_run is not after the scan's
\* current_time (which is not after now).
C2_LoopFiresOnlyEnabledAndDue ==
    [][LoopStartsExecution =>
          LET c == schedules'[exec'[LoopTask].name]
          IN  /\ c.enabled
              /\ c.next_run # NoTime
              /\ c.next_run <= loop'.current_time
              /\ loop'.current_time <= now']_vars

\* C2 witness: the loop is executing one config while another one, disabled or
\* not yet due, was passed over or is still to be scanned.
C2_Witness ==
    /\ loop.pc = "exec"
    /\ exec[LoopTask].pc = "ingest"
    /\ \E m \in DOMAIN schedules :
          /\ m # exec[LoopTask].name
          /\ ~schedules[m].enabled \/ schedules[m].next_run > now

\* C3: every execution, fired by the loop or by run_schedule_now, for one feed
\* or for all feeds, stamps last_run = now and next_run = last_run +
\* interval_minutes on its config when its ingest has ended, so the config is
\* Armed again (next_run in the future) and not left Due.
C3_EveryExecutionStamps ==
    [][\A t \in TaskIds, fault \in BOOLEAN :
          (IngestDone(t, fault) /\ exec[t].attached) =>
              LET c == schedules'[exec[t].name]
              IN  /\ c.last_run = now'
                  /\ c.next_run = c.last_run + c.interval_minutes
                  /\ c.next_run > now']_vars

\* C4: when the loop's execution of a config, fired for next_run = T + interval,
\* stamps the config, its new next_run is the previous next_run plus the
\* interval, whatever the time at which the execution ran or finished.
C4_NextRunDoesNotDrift ==
    [][\A fault \in BOOLEAN :
          (IngestDone(LoopTask, fault) /\ exec[LoopTask].attached
             /\ schedules' # schedules) =>
              LET n == exec[LoopTask].name
              IN  schedules'[n].next_run =
                      schedules[n].next_run + schedules[n].interval_minutes]_vars

\* C5: at no time are two executions of the same config in progress.
C5_NoOverlappingExecutions ==
    \A t1, t2 \in TaskIds :
        (/\ t1 # t2
         /\ exec[t1].pc # "idle" /\ exec[t1].attached
         /\ exec[t2].pc # "idle" /\ exec[t2].attached)
        => exec[t1].name # exec[t2].name

\* A config the loop has to execute: the scheduler runs, the config is
\* registered, enabled and its next_run has passed.
DueFor(n) == running /\ Present(n) /\ Fires(schedules[n], now)

LoopExecuting(n) == loop.pc = "exec" /\ exec[LoopTask].name = n

\* C6: if the scheduler stays running, a config stays registered and enabled and
\* every execution terminates, then once now >= next_run the config is
\* eventually executed by the loop: no config stays due for ever without the
\* loop executing it, that is, again and again the config is either being
\* executed by the loop or not due.
C6_DueConfigEventuallyFired ==
    \A n \in Names : []<>(LoopExecuting(n) \/ ~DueFor(n))

\* C6 witness: the loop is executing a config that is due while another
\* config is registered and disabled.
C6_Witness ==
    \E n, m \in Names :
        /\ DueFor(n) /\ LoopExecuting(n)
        /\ m # n /\ Present(m) /\ ~schedules[m].enabled

\* C7: run_schedule_now(name) on a registered config starts an execution at
\* once, whatever its next_run, and that execution updates last_run and
\* next_run and goes on to dispatch the callbacks.
C7_RunNowExecutesStampsDispatches ==
    [][\A t \in ManualCallers :
          /\ \A n \in Names :
                (RunScheduleNow(t, n) /\ Present(n)) => exec'[t] = StartExec(n)
          /\ \A fault \in BOOLEAN :
                (IngestDone(t, fault) /\ exec[t].attached) =>
                    /\ schedules'[exec[t].name].last_run = now'
                    /\ schedules'[exec[t].name].next_run =
                          now' + schedules'[exec[t].name].interval_minutes
                    /\ exec'[t].pc = "callbacks"]_vars

\* C8: run_schedule_now(name) with a name that is not registered returns an
\* error result and changes nothing else: no execution starts, no config
\* changes, the loop is not touched.
C8_UnknownNameIsErrorAndNoChange ==
    [][\A t \in ManualCallers, n \in Names :
          (RunScheduleNow(t, n) /\ ~Present(n)) =>
              /\ ret'[t].kind = "error"
              /\ UNCHANGED <<now, schedules, entries, running, loop, exec,
                             feed_state, stop_pc, orphans, callbacks, db, ingest, probe, fetch_all, race, cleanup, briefing>>]_vars

\* C8 witness: a caller got the error for a name that is not registered while
\* another schedule is registered and the scheduler runs.
C8_Witness ==
    \E t \in ManualCallers :
        /\ ret[t].kind = "error"
        /\ ret[t].name \notin DOMAIN schedules
        /\ DOMAIN schedules # {}
        /\ running

\* C9: run_schedule_now called while the scheduler is not running returns an
\* error result and starts no ingest.
C9_NotRunningIsError ==
    [][\A t \in ManualCallers, n \in Names :
          (RunScheduleNow(t, n) /\ ~running) =>
              /\ ret'[t].kind = "error"
              /\ exec'[t].pc = "idle"]_vars

\* C10: whenever the execution behind run_schedule_now failed (an error result
\* of refresh_feed, or an exception), the result returned reports failure.
C10_FailedRunReportsFailure ==
    \A t \in ManualCallers :
        ret[t].path \in {"error", "exception"} => ret[t].kind = "error"

\* The loop tasks that exist and are not done.
AliveLoopTasks == orphans + (IF LoopAlive THEN 1 ELSE 0)

\* C11: start() while the scheduler is running changes nothing (no second loop
\* task is created), and across the start() and stop() calls at most one loop
\* task is alive at any time.
C11_StartIdempotentOneLoopTask ==
    [][/\ (Start /\ running) =>
              UNCHANGED <<now, schedules, entries, running, loop, exec, ret,
                          feed_state, stop_pc, orphans, callbacks, db, ingest, probe, fetch_all, race, cleanup, briefing>>
       /\ AliveLoopTasks' <= 1]_vars

\* C11 witness: the scheduler was started, its loop task is in the middle of a
\* scan, and a further start() can be called.
C11_Witness ==
    /\ running
    /\ loop.pc = "exec"
    /\ AliveLoopTasks = 1
    /\ ENABLED Start

\* The step is one in which a stop() call returns.
StopReturns == StopReturn \/ (StopCall /\ stop_pc' = "idle")

\* A step of the loop task: a scan, or a step of the execution it awaits.
LoopTaskStep ==
    \/ LoopTick
    \/ \E fault \in BOOLEAN : IngestDone(LoopTask, fault)
    \/ \E raised \in BOOLEAN : CallbackDone(LoopTask, raised)
    \/ \E outcome \in PostOutcomes : WebhookDone(LoopTask, outcome)

\* C12: when stop() returns the loop task has terminated and running is false,
\* and from then until a later start() the loop task takes no step: no scan
\* and no step of an execution the loop started.
C12_NoLoopStepAfterStop ==
    [][/\ StopReturns => (~running' /\ AliveLoopTasks' = 0)
       /\ (~running /\ stop_pc = "idle") => ~LoopTaskStep]_vars

\* C12 witness: stop() has returned after cancelling the loop task, and a
\* registered config is due.
C12_Witness ==
    /\ ~running
    /\ stop_pc = "idle"
    /\ loop.pc = "cancelled"
    /\ \E n \in DOMAIN schedules : Fires(schedules[n], now)

\* C13: when stop() cancels the loop while the ingest of a due config is in
\* progress, that ingest runs to completion: the ingest an execution of the
\* loop is in ends by its own completion and in no other way.
C13_InFlightIngestCompletes ==
    [][(/\ exec[LoopTask].pc = "ingest"
        /\ \/ exec'[LoopTask].pc # "ingest"
           \/ exec'[LoopTask].name # exec[LoopTask].name) =>
          \E fault \in BOOLEAN : IngestDone(LoopTask, fault)]_vars

\* The step is one in which task t's execution invokes a callback or posts
\* the webhook.
Invokes(t) ==
    \/ /\ exec'[t].pc = "callbacks"
       /\ exec[t].pc # "callbacks" \/ exec'[t].cb_pos # exec[t].cb_pos
    \/ exec'[t].pc = "webhook" /\ exec[t].pc # "webhook"

\* C14: during callback dispatch every registered callback is invoked once,
\* and a callback that raises prevents neither the remaining callbacks nor the
\* webhook nor the loop: when the callback at position k ends, raising or not,
\* the next registered callback is invoked, or after the last one the webhook
\* is posted if the config has one, and the scheduler goes on running.
C14_EveryCallbackInvoked ==
    [][\A t \in TaskIds, raised \in BOOLEAN :
          CallbackDone(t, raised) =>
              /\ exec[t].cb_pos < exec[t].cb_len =>
                    (exec'[t].pc = "callbacks" /\ exec'[t].cb_pos = exec[t].cb_pos + 1)
              /\ (exec[t].cb_pos = exec[t].cb_len /\ exec[t].hook) =>
                    exec'[t].pc = "webhook"
              /\ running' = running
              /\ LoopAlive' = LoopAlive]_vars

\* C15: within one execution the ingest finishes, then last_run and next_run
\* are stamped, then the callbacks are dispatched: a callback is invoked or
\* the webhook posted either by the step that ends the ingest without error
\* and stamps the config object (seen in self.schedules while the object is
\* still the registered one), or later in that execution.
C15_IngestThenStampThenCallbacks ==
    [][\A t \in TaskIds :
          Invokes(t) =>
              \/ exec[t].pc \in {"callbacks", "webhook"}
              \/ /\ exec[t].pc = "ingest"
                 /\ IngestDone(t, FALSE)
                 /\ exec[t].attached =>
                       LET c == schedules'[exec[t].name]
                       IN  /\ c.last_run = now'
                           /\ c.next_run = c.last_run + c.interval_minutes]_vars

\* C15 witness: an execution has invoked two callbacks and is posting the
\* webhook, after an ingest that took time, with its config stamped.
C15_Witness ==
    \E t \in TaskIds :
        /\ exec[t].pc = "webhook"
        /\ exec[t].cb_len = 2
        /\ exec[t].attached
        /\ schedules[exec[t].name].last_run > 0

\* C16: an execution makes at most one webhook POST attempt, and a response
\* with status >= 400 or a connection failure is not retried and changes
\* neither last_run and next_run, nor the result of the ingest, nor whether
\* the loop runs: whatever the outcome, the step that ends the POST is the one
\* that ends a successful POST, it ends the execution, and it leaves the
\* schedules, running and the loop task's being alive as they are.
C16_OnePostNoRetryNoEffect ==
    [][\A t \in TaskIds, outcome \in PostOutcomes :
          WebhookDone(t, outcome) =>
              /\ WebhookDone(t, "2xx")
              /\ exec'[t].pc # "webhook"
              /\ schedules' = schedules
              /\ running' = running
              /\ LoopAlive' = LoopAlive
              /\ t \in ManualCallers => ret'[t].path = "ok"]_vars

\* C16 witness: the loop's execution of a stamped config is posting the
\* webhook while the scheduler runs.
C16_Witness ==
    /\ running
    /\ exec[LoopTask].pc = "webhook"
    /\ exec[LoopTask].attached
    /\ schedules[exec[LoopTask].name].last_run # NoTime

\* C17: after remove_schedule(name) returned true, and unless the name is added
\* again, the loop starts no execution of that name and no callback is
\* dispatched for it: executions are started, callbacks invoked and webhooks
\* posted for registered names only.
C17_NothingForARemovedName ==
    [][/\ LoopStartsExecution => exec'[LoopTask].name \in DOMAIN schedules'
       /\ \A t \in TaskIds : Invokes(t) => exec'[t].name \in DOMAIN schedules']_vars

\* C18: if a store read fails during a duplicate check, the check answers
\* duplicate: the candidate is not persisted, the ingest does not return at
\* that step (no error reaches its caller), and it goes on to the next
\* candidate of the feed, or to the feed's update after the last one.
C18_DuplicateCheckFailsClosed ==
    [][\A fault \in ReadFaults :
          (/\ DupCheck(fault)
           /\ ReadFails(ingest.content[ingest.pos], db.articles, fault)) =>
              /\ db'.articles = db.articles
              /\ ingest'.saved = ingest.saved
              /\ ingest'.ret = ingest.ret
              /\ ingest'.pos = ingest.pos + 1
              /\ ingest'.pc = IF ingest.pos < Len(ingest.content)
                              THEN "check" ELSE "update"]_vars

\* C18 witness: the check of the first of two candidates met a failing read
\* though the candidate is new to the store; the second candidate is being
\* checked and the store holds no article of the feed.
C18_Witness ==
    /\ ingest.run = "first"
    /\ ingest.first_errors
    /\ ingest.pc = "check"
    /\ ingest.pos = 2
    /\ BySource(db.articles, FeedName) = {}

\* C19: a duplicate check only reads the store: whatever the candidate and
\* the outcome (new, duplicate, internal error), the stored articles and the
\* feed's row are the same before and after it.
C19_DuplicateCheckOnlyReads ==
    [][\A fault \in ReadFaults : DupCheck(fault) => db' = db]_vars

\* C19 witness: a check has answered "new" (the candidate is about to be
\* saved) after an earlier one met an error, with articles in the store.
C19_Witness ==
    /\ ingest.pc = "save"
    /\ ingest.first_errors
    /\ db.articles # {}

SameSource == probe.stored.source = FeedName
\* Both published dates of the probe are present.
BothDated ==
    probe.article.published_date # NoDate /\ probe.stored.published_date # NoDate
\* The hours between the two published dates of the probe.
HoursApart == AbsDiff(probe.article.published_date, probe.stored.published_date)
\* The word sets of the two normalized titles of the probe.
ProbeWords1 == WordsOf(Normalize(probe.article.title))
ProbeWords2 == WordsOf(Normalize(probe.stored.title))
\* One normalized title of the probe is a substring of the other.
OneContainsOther ==
    \/ Contains(Normalize(probe.article.title), Normalize(probe.stored.title))
    \/ Contains(Normalize(probe.stored.title), Normalize(probe.article.title))
\* The first 1000 characters of a body.
FirstChunk(body) == IF body = <<>> THEN <<>> ELSE <<Head(body)>>
\* The title rule of the duplicate check applies to the probe.
TitleRuleApplies == SameSource /\ probe.similar /\ BothDated /\ HoursApart < 24

\* C21: a candidate whose title matches the title of a stored article of the
\* same source is a duplicate unless both published dates are present and 24
\* hours or more apart; with a date absent the title match alone decides.
C21_TitleMatchIsDuplicateUnlessFarApart ==
    (/\ probe.pc = "checked"
     /\ SameSource
     /\ probe.similar
     /\ ~(BothDated /\ HoursApart >= 24)) => probe.duplicate

\* C22: the titles "Breaking: Market Hits Record High" and "Breaking Market
\* Hits Record High" (here "B: M h r g" and "B M h r g") of the same source
\* are duplicates when published 1 hour apart; 30 days apart (and with no
\* body in common, no failing read) they are not.
C22_PunctuationVariantsAreDuplicates ==
    (/\ probe.pc = "checked"
     /\ SameSource
     /\ probe.article.title = <<"B", ":", " ">> \o Spaced(<<"M", "h", "r", "g">>)
     /\ probe.stored.title = Spaced(<<"B", "M", "h", "r", "g">>)
     /\ BothDated) =>
        /\ HoursApart = 1 => probe.duplicate
        /\ (/\ HoursApart = 720
            /\ probe.fault = "none"
            /\ FirstChunk(probe.article.content) # FirstChunk(probe.stored.content))
               => ~probe.duplicate

\* C23: two normalized titles, neither a substring of the other, are judged
\* similar exactly when the Jaccard similarity of their word sets is >= 0.8;
\* 4 words shared of 5 is similar.
C23_JaccardAtLeastThreshold ==
    (probe.pc \in {"compared", "checked"} /\ ~OneContainsOther) =>
        (probe.similar <=>
            5 * Cardinality(ProbeWords1 \cap ProbeWords2)
                >= 4 * Cardinality(ProbeWords1 \cup ProbeWords2))

\* C23 witness: two compared titles, neither a substring of the other, that
\* share 4 of their 5 distinct words.
C23_Witness ==
    /\ probe.pc = "compared"
    /\ ~OneContainsOther
    /\ Cardinality(ProbeWords1 \cap ProbeWords2) = 4
    /\ Cardinality(ProbeWords1 \cup ProbeWords2) = 5
    /\ probe.similar

\* C24 as stated: two titles that share only 3 of their 5 distinct words are
\* never judged similar.
C24_ThreeOfFiveNeverSimilar ==
    (/\ probe.pc \in {"compared", "checked"}
     /\ Cardinality(ProbeWords1 \cap ProbeWords2) = 3
     /\ Cardinality(ProbeWords1 \cup ProbeWords2) = 5) => ~probe.similar

\* C24 amended: two titles that share only 3 of their 5 distinct words, and
\* of which neither is a substring of the other after normalization, are
\* never judged similar.
C24_ThreeOfFiveNotSimilarUnlessContained ==
    (/\ probe.pc \in {"compared", "checked"}
     /\ ~OneContainsOther
     /\ Cardinality(ProbeWords1 \cap ProbeWords2) = 3
     /\ Cardinality(ProbeWords1 \cup ProbeWords2) = 5) => ~probe.similar

\* C24 witness: two compared titles that share 3 of their 5 distinct words,
\* neither a substring of the other.
C24_Witness ==
    /\ probe.pc = "compared"
    /\ ~OneContainsOther
    /\ Cardinality(ProbeWords1 \cap ProbeWords2) = 3
    /\ Cardinality(ProbeWords1 \cup ProbeWords2) = 5
    /\ ~probe.similar

\* C25: a candidate with a body is a duplicate when the first 1000
\* characters of its body are those of the body of a stored article of the
\* same source, whatever follows them; where no other rule applies and no
\* read fails, it is a duplicate only then, and a candidate without a body
\* is not a duplicate.
C25_BodyDuplicateByFirstThousand ==
    probe.pc = "checked" =>
        /\ (/\ probe.article.content # <<>>
            /\ SameSource
            /\ FirstChunk(probe.article.content) = FirstChunk(probe.stored.content))
               => probe.duplicate
        /\ (/\ probe.fault = "none"
            /\ ~TitleRuleApplies
            /\ \/ probe.article.content = <<>>
               \/ ~SameSource
               \/ FirstChunk(probe.article.content) # FirstChunk(probe.stored.content))
               => ~probe.duplicate

\* C25 witness: a candidate whose body goes on after the first 1000
\* characters is found duplicate of a stored article of the same source that
\* has these 1000 characters only, the titles being unlike.
C25_Witness ==
    /\ probe.pc = "checked"
    /\ probe.fault = "none"
    /\ SameSource
    /\ ~probe.similar
    /\ probe.article.content = <<"h", "t">>
    /\ probe.stored.content = <<"h">>
    /\ probe.duplicate

\* The step is one in which a fetch_feed_articles call returns.
IngestReturns ==
    /\ ingest'.pc = "idle"
    /\ ingest.pc # "idle" \/ ingest'.run # ingest.run

\* C26: if the fetcher fails for a feed, the ingest of that feed returns an
\* empty list at once, raises nothing and persists no article.
C26_FetchFailureReturnsEmpty ==
    [][FetchFeed(TRUE) =>
          /\ IngestReturns
          /\ ingest'.ret = <<>>
          /\ db' = db]_vars

\* C26 witness: the first ingest has returned without having got the feed
\* content, which has entries.
C26_Witness ==
    /\ ingest.run = "first"
    /\ ingest.pc = "idle"
    /\ ~ingest.first_fetched
    /\ ingest.content # <<>>

\* C27: every ingest call that returns has set the feed's last_fetched to
\* its own time (here: to the run it is), new articles or not, failed fetch
\* or not.
C27_EveryReturnStampsLastFetched ==
    [][IngestReturns => db'.last_fetched = ingest'.run]_vars

\* C28: an ingest returns exactly the candidates it has persisted, in feed
\* order, stamped with the feed's name: an article is persisted only
\* together with its joining the list, and the list is what is returned.
C28_ReturnsExactlyThePersisted ==
    [][/\ \A fault \in BOOLEAN :
            (SaveArticle(fault) /\ db'.articles # db.articles) =>
                /\ db'.articles =
                       db.articles \cup {Persisted(ingest.content[ingest.pos])}
                /\ ingest'.saved = Append(ingest.saved, ingest.content[ingest.pos])
       /\ IngestReturns => ingest'.ret = ingest'.saved]_vars

\* C29: fetch_all_feeds runs one ingest task per active feed concurrently:
\* the ingests are started together, so none has finished while another
\* has yet to start.
C29_IngestsRunConcurrently ==
    \A i, j \in 1..Len(fetch_all.status) :
        fetch_all.status[i] = "done" => fetch_all.status[j] # "created"

\* The feeds of the call have names of their own.
DistinctNames ==
    \A i, j \in 1..Len(fetch_all.feeds) :
        fetch_all.feeds[i] = fetch_all.feeds[j] => i = j

\* When fetch_all_feeds has returned, every feed whose ingest failed maps to
\* the empty list and every other feed to what its own ingest returned.
EntriesAreOwnResults ==
    /\ \A i \in 1..Len(fetch_all.feeds) : fetch_all.feeds[i] \in DOMAIN fetch_all.results
    /\ \A i \in fetch_all.failed : fetch_all.results[fetch_all.feeds[i]] = <<>>
    /\ \A i \in (1..Len(fetch_all.feeds)) \ fetch_all.failed :
          fetch_all.results[fetch_all.feeds[i]] = fetch_all.returned[i]

C38_AtMostOnePersistedPerUrl ==
    /\ ingest.pc = "save" =>
          ~\E e \in db.articles : e.url = ingest.content[ingest.pos].url
    /\ \A i, j \in 1..Len(ingest.saved) :
          ingest.saved[i].url = ingest.saved[j].url => i = j

\* C38 witness: the first ingest of a content whose two entries carry the
\* same URL has returned the first entry only, with no error on the way.
C38_Witness ==
    /\ ingest.run = "first"
    /\ ingest.pc = "idle"
    /\ Len(ingest.content) = 2
    /\ ingest.content[1].url = ingest.content[2].url
    /\ ingest.content[1] # ingest.content[2]
    /\ ~ingest.first_errors
    /\ ingest.ret = <<ingest.content[1]>>
    /\ db.last_fetched = "first"

\* C39: if persisting one candidate raises, only that candidate is omitted:
\* the ingest does not return at that step and raises nothing, it goes on to
\* the next candidate of the feed or to the feed's update, what was saved
\* before stays saved, and the update that follows writes last_fetched and
\* returns the saved articles.
C39_FailedSaveOmitsOnlyThatCandidate ==
    [][/\ SaveArticle(TRUE) =>
             /\ db' = db
             /\ ingest'.saved = ingest.saved
             /\ ingest'.ret = ingest.ret
             /\ ingest'.pos = ingest.pos + 1
             /\ ingest'.pc = IF ingest.pos < Len(ingest.content)
                             THEN "check" ELSE "update"
       /\ (UpdateFeed(FALSE) /\ ingest.save_failed) =>
             /\ ingest'.ret = ingest.saved
             /\ db'.last_fetched = ingest.run]_vars

\* C39 witness: the first ingest of two candidates has returned the second
\* one alone: the save of the first raised, the second was checked and
\* persisted and last_fetched was written.
C39_Witness ==
    /\ ingest.run = "first"
    /\ ingest.pc = "idle"
    /\ ingest.save_failed
    /\ Len(ingest.content) = 2
    /\ ingest.content[1].url # ingest.content[2].url
    /\ ingest.ret = <<ingest.content[2]>>
    /\ Persisted(ingest.content[2]) \in db.articles
    /\ Persisted(ingest.content[1]) \notin db.articles
    /\ db.last_fetched = "first"

\* C37: for an all-feeds execution, whatever the active feeds (names may
\* repeat), the mapping fetch_all_feeds returns has one entry for every
\* active feed and the new_articles count handed to the callbacks is the
\* number of articles persisted during the execution.
C37_OneEntryPerFeedAndExactCount ==
    fetch_all.pc = "returned" =>
        /\ Cardinality(DOMAIN fetch_all.results) = Len(fetch_all.feeds)
        /\ TotalNew(fetch_all.results) = SavedByIngests(fetch_all.returned)

\* The article a comes before the article b in the order of priority
\* Urgent, High, Medium, Low and, within one priority, of created_at
\* descending.
UrgentFirst(a, b) ==
    \/ PriorityOrder[a.priority] < PriorityOrder[b.priority]
    \/ /\ a.priority = b.priority
       /\ a.created_at >= b.created_at

\* C35: with sort_by_priority every list of the briefing has the Urgent
\* articles first, then High, then Medium, then Low, and within equal
\* priority the articles by created_at descending.
C35_ListsSortedUrgentFirst ==
    (briefing.pc = "done" /\ briefing.config.sort_by_priority) =>
        \A name \in DOMAIN briefing.lists :
            \A i, j \in 1..Len(briefing.lists[name]) :
                i < j => UrgentFirst(briefing.lists[name][i], briefing.lists[name][j])

\* C36: the briefing lists only articles created within days_back that have
\* a non-empty source; with group_by_feed every source has a list of its own
\* articles, at most max_articles_per_feed of them, otherwise there is a
\* single "All Feeds" list of at most max_total_articles articles.
C36_BriefingListsWindowedSourcedCapped ==
    briefing.pc = "done" =>
        /\ \A name \in DOMAIN briefing.lists :
              \A i \in 1..Len(briefing.lists[name]) :
                  LET a == briefing.lists[name][i]
                  IN  /\ a \in db.articles
                      /\ a.created_at >= Today(db.articles) - briefing.config.days_back
                      /\ a.source # NoSource
                      /\ briefing.config.group_by_feed => a.source = name
        /\ briefing.config.group_by_feed =>
              \A name \in DOMAIN briefing.lists :
                  Len(briefing.lists[name]) <= briefing.config.max_articles_per_feed
        /\ ~briefing.config.group_by_feed =>
              /\ DOMAIN briefing.lists = {AllFeedsKey}
              /\ Len(briefing.lists[AllFeedsKey]) <= briefing.config.max_total_articles

\* C36 witness: a grouped briefing of a store with an article older than
\* days_back and two newer ones of one feed, of which the feed's list has
\* one: max_articles_per_feed is 1.
C36_Witness ==
    /\ briefing.pc = "done"
    /\ briefing.config.group_by_feed
    /\ briefing.config.max_articles_per_feed = 1
    /\ \E a \in db.articles :
          a.created_at < Today(db.articles) - briefing.config.days_back
    /\ Cardinality({a \in db.articles :
                       /\ a.source = FeedName
                       /\ a.created_at >= Today(db.articles) - briefing.config.days_back}) = 2
    /\ DOMAIN briefing.lists = {FeedName}
    /\ Len(briefing.lists[FeedName]) = 1

\* The article racer k had at hand is stored as an article of its feed.
RowStored(k) ==
    \E r \in db.articles :
        /\ r.url = race[k].article.url
        /\ r.source = race[k].feed
        /\ r.created_at = FetchedAt[k]

\* C31: the duplicate check and the persist are not one atomic step and the
\* store does not constrain the URL: of ingests that run side by side, each
\* one that classified its candidate as new persists it, so that two of
\* them that carry one URL leave two stored articles sharing it.
C31_RacingIngestsBothPersist ==
    \A k \in DOMAIN race :
        (race[k].pc = "done" /\ race[k].outcome # "duplicate") => RowStored(k)

\* The cleanup has returned a report of success.
CleanupSucceeded == cleanup.pc = "returned" /\ cleanup.report.success

\* C32: given three stored duplicates of one source created at t1 < t2 < t3
\* (articles with one URL; in general, articles the cleanup counts as
\* duplicates of a newer one), cleanup_duplicates leaves the article created
\* at t3 in the store and removes the two older ones.
C32_CleanupKeepsNewestRemovesOlder ==
    CleanupSucceeded =>
        \A i1, i2, i3 \in 1..Len(cleanup.work) :
            LET r1 == cleanup.work[i1]
                r2 == cleanup.work[i2]
                r3 == cleanup.work[i3]
            IN  (/\ r1.source = r3.source /\ r2.source = r3.source
                 /\ r1.created_at < r2.created_at /\ r2.created_at < r3.created_at
                 /\ r1 \in cleanup.flagged /\ r2 \in cleanup.flagged
                 /\ r3 \notin cleanup.flagged) =>
                    /\ r3 \in db.articles
                    /\ r1 \notin db.articles
                    /\ r2 \notin db.articles

\* C33: a removal that fails does not abort cleanup_duplicates: the call
\* reports failure only when its first read of the store failed, it
\* examines every article of every source, an article whose removal failed
\* is counted in duplicates_found and not in duplicates_removed, and
\* duplicates_removed <= duplicates_found <= total_articles.
C33_FailedRemovalDoesNotAbort ==
    /\ cleanup.duplicates_removed <= cleanup.duplicates_found
    /\ cleanup.duplicates_found <= Len(cleanup.work)
    /\ (cleanup.pc = "returned" /\ ~cleanup.report.success) => cleanup.pos = 0
    /\ (CleanupSucceeded /\ cleanup.work # <<>>) =>
          /\ cleanup.pos = Len(cleanup.work) + 1
          /\ cleanup.report.total_articles = Len(cleanup.work)
          /\ cleanup.report.duplicates_found = Cardinality(cleanup.flagged)
          /\ cleanup.report.duplicates_removed =
                 Cardinality(cleanup.flagged \ db.articles)
          /\ cleanup.report.duplicates_removed <= cleanup.report.duplicates_found
          /\ cleanup.report.duplicates_found <= cleanup.report.total_articles

\* C33 witness: the cleanup has returned success with one duplicate found
\* and none removed; after the duplicate whose removal failed it examined
\* an article of another source.
C33_Witness ==
    /\ CleanupSucceeded
    /\ cleanup.report.duplicates_found = 1
    /\ cleanup.report.duplicates_removed = 0
    /\ cleanup.report.sources_checked = 2
    /\ Len(cleanup.work) = 3
    /\ cleanup.work[2] \in cleanup.flagged
    /\ cleanup.work[3].source # cleanup.work[2].source
    /\ cleanup.seen_urls = {cleanup.work[3].url}

\* C34: after cleanup_duplicates has returned success no two stored
\* articles share a URL, articles of different sources included.
C34_NoSharedUrlAfterCleanup ==
    CleanupSucceeded =>
        \A a, b \in db.articles : a.url = b.url => a = b

\* C34 witness: two ingests of different feeds carried one URL and both
\* classified it as new; the cleanup has returned success over a store of
\* two articles or more.
C34_Witness ==
    /\ CleanupSucceeded
    /\ cleanup.report.total_articles >= 2
    /\ \E k1, k2 \in DOMAIN race :
          /\ race[k1].feed # race[k2].feed
          /\ race[k1].article.url = race[k2].article.url
          /\ race[k1].outcome = "saved"
          /\ race[k2].outcome = "rejected"

\* add_schedule or remove_schedule has been called since the scan the loop is
\* in began, while the loop awaits an execution of that scan: a name was
\* added (the entry array is longer than at iter()), a name was removed (a
\* dummy in the array), or the name being executed was registered anew or
\* removed.
MutatedMidScan ==
    /\ running
    /\ loop.pc = "exec"
    /\ \/ Len(entries) # loop.it_len
       \/ \E i \in 1..Len(entries) : entries[i] = Tomb
       \/ ~exec[LoopTask].attached

\* C40: add_schedule or remove_schedule called from another task while the loop
\* awaits an execution in the middle of a scan never terminates the loop: as
\* long as the scheduler is running its loop task is alive, and a config that
\* is registered, enabled and due after such a call is executed by the loop,
\* in that scan or at a later tick, unless it stops being due first.
C40_MutationMidScanKeepsLoopAndFiring ==
    /\ [](running => LoopAlive)
    /\ \A n \in Names :
          (MutatedMidScan /\ DueFor(n)) ~> (LoopExecuting(n) \/ ~DueFor(n))

\* C40 witness: the loop awaits an execution of a scan during which the dict
\* has changed size, so that the scan ends with RuntimeError at its next step,
\* while another config is registered, enabled and due and has not been
\* executed.
C40_Witness ==
    /\ MutatedMidScan
    /\ Cardinality(DOMAIN schedules) # loop.it_len
    /\ \E n \in Names : DueFor(n) /\ ~LoopExecuting(n)

====
